---- MODULE Spec2Model ----
(***************************************************************************)
(* Model of the policy engine of thi.i.ki.util.policy (GraphSkeleton,      *)
(* zero_one_bfs_forward / zero_one_bfs_backward, BellmanPolicy) and of the *)
(* TMDomain planner built on it.                                           *)
(*                                                                         *)
(* A policy object is followed through its life: construction (validate,   *)
(* strategy selection, the search loop one iteration at a time, action     *)
(* derivation) and, once ready, queries.                                   *)
(***************************************************************************)
EXTENDS Integers, Sequences, FiniteSets, TLC

VARIABLES
    skel,        \* the GraphSkeleton handed to BellmanPolicy
    pc,          \* position of the constructor / life phase of the policy
    strategy,    \* self._strategy: "none" | "forward" | "backward"
    dist,        \* dist of the running search, then self._dist
    parent,      \* parent of the running search, then self._parent
    queue,       \* the deque of the running search
    expanded,    \* the expanded counter of the running search
    next_action, \* self._next_action
    error,       \* the ValueError raised by construction ("none" if none)
    popped,      \* trace of the search: the state and its recorded distance at each popleft
    query,       \* the last query made on the ready policy and what it returned
    readers,     \* concurrent readers of the ready policy: the locals of each one's call
    tm           \* a TuringMachine object: its fields and the position of run_operation

vars == <<skel, pc, strategy, dist, parent, queue, expanded, next_action,
          error, popped, query, readers, tm>>

(***************************************************************************)
(* Bounds of the model.                                                    *)
(***************************************************************************)
NumStates == 3
MaxEdges == 3
MaxStatesBound == 2
(* how far a search that nothing bounds is followed *)
MaxExpanded == 16
(* the number of concurrent readers of one policy *)
NumReaders == 2

(* float('inf'), the value distance() gives for a state absent from _dist: *)
(* modelled as a number above every distance a search can record.          *)
Inf == 1000000
(* max_steps of get_full_path *)
MaxSteps == 10000

None == "None"
EmptyMap == [x \in {} |-> 0]

Nodes == 0 .. (NumStates - 1)
Actions == {"a", "b"}
Costs == {0, 1}

Min(a, b) == IF a <= b THEN a ELSE b

(***************************************************************************)
(* Domains.  A domain supplies the callbacks of the skeleton.  kind        *)
(* "graph" is an explicit finite graph: succ[s] is the sequence of         *)
(* (next_state, action, cost) that successors(s) yields, in order, and     *)
(* pred[s] the sequence predecessors(s) yields.                            *)
(***************************************************************************)
Edge(n, a, c) == <<n, a, c>>

RECURSIVE SeqsUpTo(_, _)
SeqsUpTo(S, n) ==
    IF n = 0 THEN {<<>>}
    ELSE LET shorter == SeqsUpTo(S, n - 1)
         IN  shorter \cup {Append(q, x) : q \in {r \in shorter : Len(r) = n - 1}, x \in S}

(* Sequences of at most k edges leaving s.  Action labels are compared only *)
(* among the successors of one state, so the first edge of every list is   *)
(* labelled "a" without loss of generality.                                *)
EdgeLists(s, k) ==
    {l \in SeqsUpTo((Nodes \ {s}) \X Actions \X Costs, k) :
        Len(l) > 0 => l[1][2] = "a"}

(* All successor functions over the node set S with at most k edges.       *)
RECURSIVE GraphsOver(_, _)
GraphsOver(S, k) ==
    IF S = {} THEN {EmptyMap}
    ELSE LET x == CHOOSE y \in S : \A z \in S : y <= z
         IN  UNION {
               {[y \in S |-> IF y = x THEN l ELSE g[y]] :
                    g \in GraphsOver(S \ {x}, k - Len(l))} :
               l \in EdgeLists(x, k)}

(* predecessors(t) of an explicit graph: the inverse of succ, sources in   *)
(* ascending order, each source's edges in the order succ yields them.     *)
RECURSIVE InEdges(_, _, _, _)
InEdges(g, t, p, i) ==
    IF p >= NumStates THEN <<>>
    ELSE IF i > Len(g[p]) THEN InEdges(g, t, p + 1, 1)
    ELSE IF g[p][i][1] = t
         THEN <<Edge(p, g[p][i][2], g[p][i][3])>> \o InEdges(g, t, p, i + 1)
         ELSE InEdges(g, t, p, i + 1)

InversePred(g) == [t \in Nodes |-> InEdges(g, t, 0, 1)]

(***************************************************************************)
(* TMDomain (tm_domain.py).  A TMState is a record; dom holds the          *)
(* constructor's parameters.                                               *)
(***************************************************************************)
TMState(n_left, n_right, step_count) ==
    [n_left |-> n_left, n_right |-> n_right, step_count |-> step_count]

Max(a, b) == IF a >= b THEN a ELSE b

RECURSIVE bit_length(_)
bit_length(n) == IF n = 0 THEN 0 ELSE 1 + bit_length(n \div 2)

_cost(dom, state, op) ==
    IF dom.cost_mode = "uniform" THEN 1
    ELSE IF op = "+" THEN 1
    ELSE IF op = "-" THEN Max(1, state.n_right \div 10)
    ELSE IF op = "#" THEN Max(1, state.n_left \div 100)
    ELSE 1

_is_goal(dom, state) == state.n_left = dom.target /\ state.n_right = 0

_successors(dom, state) ==
    LET n1 == state.n_left
        n2 == state.n_right
        steps == state.step_count
        plus == IF "+" \in dom.ops /\ n1 + n2 <= dom.max_value
                THEN <<Edge(TMState(n1 + n2, 0, steps + 1), "+", _cost(dom, state, "+"))>>
                ELSE <<>>
        minus == IF "-" \in dom.ops /\ n1 >= n2 /\ n1 - n2 >= 0
                 THEN <<Edge(TMState(n1 - n2, 0, steps + 1), "-", _cost(dom, state, "-"))>>
                 ELSE <<>>
        shift == IF "#" \in dom.ops /\ n2 <= 20 /\ n1 * (2 ^ n2) <= dom.max_value
                 THEN <<Edge(TMState(n1 * (2 ^ n2), 0, steps + 1), "#", _cost(dom, state, "#"))>>
                 ELSE <<>>
    IN  plus \o minus \o shift

(* The three loops of _predecessors; each yields in ascending loop order.  *)
RECURSIVE PredPlus(_, _, _, _)
PredPlus(dom, n1, prev_steps, a) ==
    IF a >= Min(n1 + 1, dom.max_value) THEN <<>>
    ELSE LET b == n1 - a
             here == IF 0 <= b /\ b <= dom.max_value
                     THEN <<Edge(TMState(a, b, prev_steps), "+",
                                 _cost(dom, TMState(a, b, prev_steps), "+"))>>
                     ELSE <<>>
         IN  here \o PredPlus(dom, n1, prev_steps, a + 1)

RECURSIVE PredMinus(_, _, _, _)
PredMinus(dom, n1, prev_steps, b) ==
    IF b >= Min(dom.max_value - n1, 100) THEN <<>>
    ELSE LET a == n1 + b
             here == IF a <= dom.max_value
                     THEN <<Edge(TMState(a, b, prev_steps), "-",
                                 _cost(dom, TMState(a, b, prev_steps), "-"))>>
                     ELSE <<>>
         IN  here \o PredMinus(dom, n1, prev_steps, b + 1)

RECURSIVE PredShift(_, _, _, _)
PredShift(dom, n1, prev_steps, b) ==
    IF b >= Min(bit_length(n1) + 1, 20) THEN <<>>
    ELSE LET a == n1 \div (2 ^ b)
             here == IF n1 % (2 ^ b) = 0 /\ 0 < a /\ a <= dom.max_value
                     THEN <<Edge(TMState(a, b, prev_steps), "#",
                                 _cost(dom, TMState(a, b, prev_steps), "#"))>>
                     ELSE <<>>
         IN  here \o PredShift(dom, n1, prev_steps, b + 1)

_predecessors(dom, state) ==
    LET n1 == state.n_left
        prev_steps == IF state.step_count > 0 THEN state.step_count - 1 ELSE 0
    IN  IF state.n_right # 0 THEN <<>>
        ELSE (IF "+" \in dom.ops THEN PredPlus(dom, n1, prev_steps, 0) ELSE <<>>)
             \o (IF "-" \in dom.ops THEN PredMinus(dom, n1, prev_steps, 1) ELSE <<>>)
             \o (IF "#" \in dom.ops THEN PredShift(dom, n1, prev_steps, 0) ELSE <<>>)

initial_state(dom) == TMState(dom.start_n1, dom.start_n2, 0)

(* Optional values: <<>> is None, <<v>> is the value v.                    *)
NoValue == <<>>
Some(v) == <<v>>

build_skeleton(dom) ==
    [kind |-> "tm", dom |-> dom,
     has_predecessors |-> TRUE,
     initial_states |-> <<initial_state(dom)>>,
     direction |-> "bidirectional",
     cost_type |-> IF dom.cost_mode = "uniform" THEN "uniform" ELSE "zero_one",
     max_states |-> Some(dom.max_value * 10),
     max_cost |-> NoValue]

(***************************************************************************)
(* The skeleton's callbacks, by the domain that built it.                  *)
(*   "graph": dom = [succ, pred, goals]                                    *)
(*   "inc":   successors(n) = [(n+1,'inc',1), (n*2,'double',1)],           *)
(*            dom = [goal]                                                 *)
(*   "tm":    TMDomain                                                     *)
(***************************************************************************)
is_goal(s) ==
    CASE skel.kind = "graph" -> s \in skel.dom.goals
      [] skel.kind = "inc" -> s = skel.dom.goal
      [] skel.kind = "tm" -> _is_goal(skel.dom, s)

successors(s) ==
    CASE skel.kind = "graph" -> skel.dom.succ[s]
      [] skel.kind = "inc" -> <<Edge(s + 1, "inc", 1), Edge(s * 2, "double", 1)>>
      [] skel.kind = "tm" -> _successors(skel.dom, s)

predecessors(s) ==
    CASE skel.kind = "graph" -> skel.dom.pred[s]
      [] skel.kind = "tm" -> _predecessors(skel.dom, s)

(***************************************************************************)
(* GraphSkeleton.validate (skeleton.py).  Only the direction check is      *)
(* executed: the statements after it define a nested function, also named  *)
(* validate, that is never called.                                         *)
(***************************************************************************)
(* a validate without the direction check *)
ValidateNothing(sk) == "ok"

validate(sk) ==
    IF sk.direction \in {"backward", "bidirectional"} /\ ~sk.has_predecessors
    THEN "Direction benoetigt predecessors-Callback"
    ELSE "ok"

(***************************************************************************)
(* zero_one.py: the two searches.  A search is followed one iteration of   *)
(* its while loop at a time; the for loop over the generator's edges is    *)
(* the recursive operator below.  st = [dist, parent, queue, error].       *)
(***************************************************************************)
MapPut(f, k, v) == [x \in (DOMAIN f) \cup {k} |-> IF x = k THEN v ELSE f[x]]

NoError == [kind |-> "none"]

CostError(src, action, tgt, cost) ==
    [kind |-> "cost", src |-> src, action |-> action, tgt |-> tgt, cost |-> cost]

(* dist[state] = 0; queue.append(state) for each seed, in order *)
RECURSIVE SeedSearch(_, _, _)
SeedSearch(seeds, i, st) ==
    IF i > Len(seeds) THEN st
    ELSE SeedSearch(seeds, i + 1,
                    [st EXCEPT !.dist = MapPut(st.dist, seeds[i], 0),
                               !.queue = Append(st.queue, seeds[i])])

EmptySearch == [dist |-> EmptyMap, parent |-> EmptyMap, queue |-> <<>>, error |-> NoError]

(* a search that records a state's first distance only *)
RelaxForwardEdgeFirstOnly(state, e, st) ==
    LET next_state == e[1]
        action == e[2]
        cost == e[3]
        new_dist == st.dist[state] + cost
    IN  IF next_state \notin DOMAIN st.dist
        THEN [dist |-> MapPut(st.dist, next_state, new_dist),
              parent |-> MapPut(st.parent, next_state, <<state, action>>),
              queue |-> IF cost = 0 THEN <<next_state>> \o st.queue
                        ELSE Append(st.queue, next_state),
              error |-> st.error]
        ELSE st

(* a forward relaxation without the cost-domain test *)
RelaxForwardEdgeAnyCost(state, e, st) ==
    LET next_state == e[1]
        action == e[2]
        cost == e[3]
        new_dist == st.dist[state] + cost
    IN  IF next_state \notin DOMAIN st.dist \/ new_dist < st.dist[next_state]
        THEN [dist |-> MapPut(st.dist, next_state, new_dist),
              parent |-> MapPut(st.parent, next_state, <<state, action>>),
              queue |-> IF cost = 0 THEN <<next_state>> \o st.queue
                        ELSE Append(st.queue, next_state),
              error |-> st.error]
        ELSE st

(* a forward relaxation that counts every edge as one step *)
RelaxForwardEdgeUnitCost(state, e, st) ==
    LET next_state == e[1]
        action == e[2]
        cost == e[3]
        new_dist == st.dist[state] + 1
    IN  IF cost \notin {0, 1}
        THEN [st EXCEPT !.error = CostError(state, action, next_state, cost)]
        ELSE IF next_state \notin DOMAIN st.dist \/ new_dist < st.dist[next_state]
        THEN [dist |-> MapPut(st.dist, next_state, new_dist),
              parent |-> MapPut(st.parent, next_state, <<state, action>>),
              queue |-> IF cost = 0 THEN <<next_state>> \o st.queue
                        ELSE Append(st.queue, next_state),
              error |-> st.error]
        ELSE st

(* the edge test and relaxation of zero_one_bfs_forward, lines 199-215 *)
RelaxForwardEdge(state, e, st) ==
    LET next_state == e[1]
        action == e[2]
        cost == e[3]
        new_dist == st.dist[state] + cost
    IN  IF cost \notin {0, 1}
        THEN [st EXCEPT !.error = CostError(state, action, next_state, cost)]
        ELSE IF next_state \notin DOMAIN st.dist \/ new_dist < st.dist[next_state]
        THEN [dist |-> MapPut(st.dist, next_state, new_dist),
              parent |-> MapPut(st.parent, next_state, <<state, action>>),
              queue |-> IF cost = 0 THEN <<next_state>> \o st.queue
                        ELSE Append(st.queue, next_state),
              error |-> st.error]
        ELSE st

RECURSIVE ExpandForward(_, _, _, _)
ExpandForward(state, edges, i, st) ==
    IF i > Len(edges) \/ st.error.kind # "none" THEN st
    ELSE ExpandForward(state, edges, i + 1, RelaxForwardEdge(state, edges[i], st))

(* a backward relaxation that appends every improved state at the back *)
RelaxBackwardEdgeAlwaysBack(state, e, st) ==
    LET prev_state == e[1]
        action == e[2]
        cost == e[3]
        new_dist == st.dist[state] + cost
    IN  IF cost \notin {0, 1}
        THEN [st EXCEPT !.error = CostError(prev_state, action, state, cost)]
        ELSE IF prev_state \notin DOMAIN st.dist \/ new_dist < st.dist[prev_state]
        THEN [dist |-> MapPut(st.dist, prev_state, new_dist),
              parent |-> MapPut(st.parent, prev_state, <<state, action>>),
              queue |-> Append(st.queue, prev_state),
              error |-> st.error]
        ELSE st

(* a backward relaxation that also writes and enqueues on an equal distance *)
RelaxBackwardEdgeNotStrict(state, e, st) ==
    LET prev_state == e[1]
        action == e[2]
        cost == e[3]
        new_dist == st.dist[state] + cost
    IN  IF cost \notin {0, 1}
        THEN [st EXCEPT !.error = CostError(prev_state, action, state, cost)]
        ELSE IF prev_state \notin DOMAIN st.dist \/ new_dist <= st.dist[prev_state]
        THEN [dist |-> MapPut(st.dist, prev_state, new_dist),
              parent |-> MapPut(st.parent, prev_state, <<state, action>>),
              queue |-> IF cost = 0 THEN <<prev_state>> \o st.queue
                        ELSE Append(st.queue, prev_state),
              error |-> st.error]
        ELSE st

(* a backward relaxation that records a parent at discovery only *)
RelaxBackwardEdgeKeepingParent(state, e, st) ==
    LET prev_state == e[1]
        action == e[2]
        cost == e[3]
        new_dist == st.dist[state] + cost
    IN  IF cost \notin {0, 1}
        THEN [st EXCEPT !.error = CostError(prev_state, action, state, cost)]
        ELSE IF prev_state \notin DOMAIN st.dist \/ new_dist < st.dist[prev_state]
        THEN [dist |-> MapPut(st.dist, prev_state, new_dist),
              parent |-> IF prev_state \in DOMAIN st.parent THEN st.parent
                         ELSE MapPut(st.parent, prev_state, <<state, action>>),
              queue |-> IF cost = 0 THEN <<prev_state>> \o st.queue
                        ELSE Append(st.queue, prev_state),
              error |-> st.error]
        ELSE st

(* the edge test and relaxation of zero_one_bfs_backward, lines 104-123 *)
RelaxBackwardEdge(state, e, st) ==
    LET prev_state == e[1]
        action == e[2]
        cost == e[3]
        new_dist == st.dist[state] + cost
    IN  IF cost \notin {0, 1}
        THEN [st EXCEPT !.error = CostError(prev_state, action, state, cost)]
        ELSE IF prev_state \notin DOMAIN st.dist \/ new_dist < st.dist[prev_state]
        THEN [dist |-> MapPut(st.dist, prev_state, new_dist),
              parent |-> MapPut(st.parent, prev_state, <<state, action>>),
              queue |-> IF cost = 0 THEN <<prev_state>> \o st.queue
                        ELSE Append(st.queue, prev_state),
              error |-> st.error]
        ELSE st

RECURSIVE ExpandBackward(_, _, _, _)
ExpandBackward(state, edges, i, st) ==
    IF i > Len(edges) \/ st.error.kind # "none" THEN st
    ELSE ExpandBackward(state, edges, i + 1, RelaxBackwardEdge(state, edges[i], st))

(* a bound test that lets one more state through *)
BoundHitLate(max_states, n) ==
    Len(max_states) > 0 /\ max_states[1] # 0 /\ n > max_states[1]

(* `if max_states and expanded >= max_states`: None and 0 are both falsy *)
BoundHit(max_states, n) ==
    Len(max_states) > 0 /\ max_states[1] # 0 /\ n >= max_states[1]

(* A search whose descriptor has no max_states that can stop it is         *)
(* followed for MaxExpanded iterations of its loop.                        *)
Followed ==
    (Len(skel.max_states) > 0 /\ skel.max_states[1] # 0) \/ expanded < MaxExpanded

(***************************************************************************)
(* BellmanPolicy (policy.py).                                              *)
(***************************************************************************)
(* a selection rule that looks at the cost model: no backward search for   *)
(* arbitrary costs                                                         *)
AutoSelectByCostModel(sk) ==
    IF sk.cost_type \in {"zero_one", "uniform"}
    THEN (IF sk.direction = "backward" THEN "backward" ELSE "forward")
    ELSE "forward"

_auto_select_strategy(sk) ==
    IF sk.cost_type \in {"zero_one", "uniform"}
    THEN (IF sk.direction = "backward" THEN "backward" ELSE "forward")
    ELSE (IF sk.direction = "backward" THEN "backward" ELSE "forward")

(* a constructor that always applies the automatic rule *)
ConstructAutoOnly ==
    /\ pc = "new"
    /\ LET v == validate(skel)
           chosen == _auto_select_strategy(skel)
       IN  IF v # "ok"
           THEN /\ pc' = "failed"
                /\ error' = [kind |-> "config", msg |-> v]
                /\ UNCHANGED <<strategy, dist, parent, queue>>
           ELSE IF chosen = "backward" /\ ~skel.has_predecessors
           THEN /\ pc' = "failed"
                /\ error' = [kind |-> "config", msg |-> "Backward-Strategie braucht predecessors"]
                /\ strategy' = chosen
                /\ UNCHANGED <<dist, parent, queue>>
           ELSE LET st == SeedSearch(skel.initial_states, 1, EmptySearch)
                IN  /\ pc' = "search"
                    /\ strategy' = chosen
                    /\ dist' = st.dist
                    /\ parent' = st.parent
                    /\ queue' = st.queue
                    /\ UNCHANGED error
    /\ UNCHANGED <<skel, expanded, next_action, popped, query, readers, tm>>

(* __init__ up to the first iteration of the search: validate, choose the  *)
(* strategy, and strategy.compute's call of the search, which seeds it.    *)
Construct ==
    /\ pc = "new"
    /\ LET v == validate(skel)
           chosen == IF strategy = None THEN _auto_select_strategy(skel) ELSE strategy
       IN  IF v # "ok"
           THEN /\ pc' = "failed"
                /\ error' = [kind |-> "config", msg |-> v]
                /\ UNCHANGED <<strategy, dist, parent, queue>>
           ELSE IF chosen = "backward" /\ ~skel.has_predecessors
           THEN /\ pc' = "failed"
                /\ error' = [kind |-> "config", msg |-> "Backward-Strategie braucht predecessors"]
                /\ strategy' = chosen
                /\ UNCHANGED <<dist, parent, queue>>
           ELSE LET st == SeedSearch(skel.initial_states, 1, EmptySearch)
                IN  /\ pc' = "search"
                    /\ strategy' = chosen
                    /\ dist' = st.dist
                    /\ parent' = st.parent
                    /\ queue' = st.queue
                    /\ UNCHANGED error
    /\ UNCHANGED <<skel, expanded, next_action, popped, query, readers, tm>>

(* what one search iteration leaves: the new maps, or the raised error     *)
SearchOutcome(st) ==
    IF st.error.kind # "none"
    THEN /\ pc' = "failed"
         /\ error' = st.error
         /\ dist' = EmptyMap
         /\ parent' = EmptyMap
         /\ queue' = <<>>
    ELSE /\ pc' = "search"
         /\ dist' = st.dist
         /\ parent' = st.parent
         /\ queue' = st.queue
         /\ UNCHANGED error

Searching == [dist |-> dist, parent |-> parent, queue |-> Tail(queue), error |-> NoError]

(* one iteration of the while loop of zero_one_bfs_forward *)
ForwardIterate ==
    /\ pc = "search" /\ strategy = "forward"
    /\ queue # <<>>
    /\ ~BoundHit(skel.max_states, expanded)
    /\ Followed
    /\ LET state == Head(queue)
       IN  /\ SearchOutcome(ExpandForward(state, successors(state), 1, Searching))
           /\ popped' = Append(popped, <<state, dist[state]>>)
    /\ expanded' = expanded + 1
    /\ UNCHANGED <<skel, strategy, next_action, query, readers, tm>>

(* the loop of zero_one_bfs_forward ends: return dist, parent *)
ForwardReturn ==
    /\ pc = "search" /\ strategy = "forward"
    /\ (queue = <<>> \/ BoundHit(skel.max_states, expanded))
    /\ pc' = "derive"
    /\ UNCHANGED <<skel, strategy, dist, parent, queue, expanded, next_action,
                   error, popped, query, readers, tm>>

(* one iteration of the while loop of zero_one_bfs_backward *)
BackwardIterate ==
    /\ pc = "search" /\ strategy = "backward"
    /\ queue # <<>>
    /\ ~BoundHit(skel.max_states, expanded)
    /\ Followed
    /\ LET state == Head(queue)
       IN  /\ SearchOutcome(ExpandBackward(state, predecessors(state), 1, Searching))
           /\ popped' = Append(popped, <<state, dist[state]>>)
    /\ expanded' = expanded + 1
    /\ UNCHANGED <<skel, strategy, next_action, query, readers, tm>>

(* the loop of zero_one_bfs_backward ends: return dist, parent *)
BackwardReturn ==
    /\ pc = "search" /\ strategy = "backward"
    /\ (queue = <<>> \/ BoundHit(skel.max_states, expanded))
    /\ pc' = "derive"
    /\ UNCHANGED <<skel, strategy, dist, parent, queue, expanded, next_action,
                   error, popped, query, readers, tm>>

(* _compute_forward_actions: the index of the first successor edge of      *)
(* state that lies in d with d[next_state] + cost == d[state]; 0 if none.  *)
(* a scan that keeps going and takes the last matching edge *)
RECURSIVE LastMatching(_, _, _, _)
LastMatching(d, state, edges, i) ==
    IF i > Len(edges) THEN 0
    ELSE LET later == LastMatching(d, state, edges, i + 1)
         IN  IF later # 0 THEN later
             ELSE IF edges[i][1] \in DOMAIN d /\ d[edges[i][1]] + edges[i][3] = d[state]
             THEN i
             ELSE 0

RECURSIVE FirstMatching(_, _, _, _)
FirstMatching(d, state, edges, i) ==
    IF i > Len(edges) THEN 0
    ELSE IF edges[i][1] \in DOMAIN d /\ d[edges[i][1]] + edges[i][3] = d[state]
    THEN i
    ELSE FirstMatching(d, state, edges, i + 1)

(* a derivation that does not skip the goal states *)
ComputeActionsForGoalsToo(d) ==
    LET with_action == {state \in DOMAIN d :
                           FirstMatching(d, state, successors(state), 1) # 0}
    IN  [state \in with_action |->
            successors(state)[FirstMatching(d, state, successors(state), 1)][2]]

_compute_forward_actions(d) ==
    LET with_action == {state \in DOMAIN d :
                           ~is_goal(state) /\ FirstMatching(d, state, successors(state), 1) # 0}
    IN  [state \in with_action |->
            successors(state)[FirstMatching(d, state, successors(state), 1)][2]]

Derive ==
    /\ pc = "derive"
    /\ next_action' = _compute_forward_actions(dist)
    /\ pc' = "ready"
    /\ UNCHANGED <<skel, strategy, dist, parent, queue, expanded, error, popped, query, readers, tm>>

(***************************************************************************)
(* The queries of a ready policy.                                          *)
(***************************************************************************)
RECURSIVE FirstWithAction(_, _, _)
FirstWithAction(edges, action, i) ==
    IF i > Len(edges) THEN 0
    ELSE IF edges[i][2] = action THEN i
    ELSE FirstWithAction(edges, action, i + 1)

step(state) ==
    IF is_goal(state) THEN <<None, state>>
    ELSE IF state \notin DOMAIN next_action THEN <<None, state>>
    ELSE LET action == next_action[state]
             i == FirstWithAction(successors(state), action, 1)
         IN  <<action, IF i = 0 THEN state ELSE successors(state)[i][1]>>

(* a distance that answers 0 for a state it does not know *)
DistanceDefaultZero(state) == IF state \in DOMAIN dist THEN dist[state] ELSE 0

distance(state) == IF state \in DOMAIN dist THEN dist[state] ELSE Inf

has_path(state) == state \in DOMAIN dist

(* the loop of get_full_path, cut after fuel iterations *)
RECURSIVE PathFrom(_, _)
PathFrom(current, fuel) ==
    IF fuel = 0 \/ is_goal(current) THEN <<>>
    ELSE LET r == step(current)
         IN  IF r[1] = None THEN <<>>
             ELSE <<r>> \o PathFrom(r[2], fuel - 1)

(* get_full_path.  The walk is a function of the current state alone, and  *)
(* only states of next_action continue it: a walk still running after      *)
(* more steps than next_action has states is in a cycle and runs to        *)
(* max_steps, repeating the entries of the cycle.                          *)
get_full_path(state) ==
    LET horizon == Min(MaxSteps, Cardinality(DOMAIN next_action) + 1)
        pre == PathFrom(state, horizon)
        at(k) == IF k = 0 THEN state ELSE pre[k][2]
        mu == CHOOSE i \in 0 .. horizon : \E j \in (i + 1) .. horizon : at(j) = at(i)
        lam == (CHOOSE j \in (mu + 1) .. horizon : at(j) = at(mu)) - mu
    IN  IF Len(pre) < horizon \/ horizon = MaxSteps THEN pre
        ELSE [k \in 1 .. MaxSteps |->
                 IF k <= horizon THEN pre[k] ELSE pre[mu + 1 + ((k - mu - 1) % lam)]]

(* the states a caller asks about *)
EdgeTargets(edges) == {edges[i][1] : i \in 1 .. Len(edges)}

States ==
    CASE skel.kind = "graph" -> Nodes
      [] skel.kind = "inc" -> 0 .. skel.dom.goal
      [] skel.kind = "tm" ->
            {initial_state(skel.dom)}
                \cup EdgeTargets(_successors(skel.dom, initial_state(skel.dom)))
                \cup {TMState(skel.dom.target, 0, 0), TMState(skel.dom.target, 1, 0)}

NoQuery == [op |-> "none"]

Readers == 1 .. NumReaders
Idle == [phase |-> "idle"]
NoReaders == [r \in Readers |-> Idle]

(* no TuringMachine object is under observation *)
NoMachine == [pc |-> "none"]

(* a step that drops the next-action entry it has just used *)
QueryStepForgetting ==
    /\ pc = "ready"
    /\ \E s \in States :
          /\ query' = [op |-> "step", arg |-> s, result |-> step(s)]
          /\ next_action' = [x \in (DOMAIN next_action) \ {s} |-> next_action[x]]
    /\ UNCHANGED <<skel, pc, strategy, dist, parent, queue, expanded, error, popped, readers, tm>>

QueryStep ==
    /\ pc = "ready"
    /\ \E s \in States : query' = [op |-> "step", arg |-> s, result |-> step(s)]
    /\ UNCHANGED <<skel, pc, strategy, dist, parent, queue, expanded, next_action,
                   error, popped, readers, tm>>

(* a distance query that runs the search again *)
QueryDistanceRecomputing ==
    /\ pc = "ready"
    /\ \E s \in States :
          /\ query' = [op |-> "distance", arg |-> s, result |-> distance(s)]
          /\ LET st == SeedSearch(skel.initial_states, 1, EmptySearch)
             IN  /\ pc' = "search"
                 /\ dist' = st.dist
                 /\ parent' = st.parent
                 /\ queue' = st.queue
                 /\ expanded' = 0
    /\ UNCHANGED <<skel, strategy, next_action, error, popped, readers, tm>>

QueryDistance ==
    /\ pc = "ready"
    /\ \E s \in States : query' = [op |-> "distance", arg |-> s, result |-> distance(s)]
    /\ UNCHANGED <<skel, pc, strategy, dist, parent, queue, expanded, next_action,
                   error, popped, readers, tm>>

QueryHasPath ==
    /\ pc = "ready"
    /\ \E s \in States : query' = [op |-> "has_path", arg |-> s, result |-> has_path(s)]
    /\ UNCHANGED <<skel, pc, strategy, dist, parent, queue, expanded, next_action,
                   error, popped, readers, tm>>

QueryFullPath ==
    /\ pc = "ready"
    /\ \E s \in States :
          query' = [op |-> "get_full_path", arg |-> s, result |-> get_full_path(s)]
    /\ UNCHANGED <<skel, pc, strategy, dist, parent, queue, expanded, next_action,
                   error, popped, readers, tm>>

(***************************************************************************)
(* Specifications.                                                         *)
(***************************************************************************)
Fresh ==
    /\ pc = "new"
    /\ strategy = None
    /\ dist = EmptyMap
    /\ parent = EmptyMap
    /\ queue = <<>>
    /\ expanded = 0
    /\ next_action = EmptyMap
    /\ error = NoError
    /\ popped = <<>>
    /\ query = NoQuery
    /\ readers = NoReaders
    /\ tm = NoMachine

SeedChoices == {<<0>>, <<0, 1>>}
GoalChoices == {{0}, {NumStates - 1}, {0, 1}}
MaxStatesChoices == {NoValue} \cup {Some(k) : k \in 1 .. MaxStatesBound}

GraphSkeleton(g, goals, seeds, direction, max_states) ==
    [kind |-> "graph",
     dom |-> [succ |-> g, pred |-> InversePred(g), goals |-> goals],
     has_predecessors |-> TRUE,
     initial_states |-> seeds,
     direction |-> direction,
     cost_type |-> "zero_one",
     max_states |-> max_states,
     max_cost |-> NoValue]

(* Spec: a policy over an explicit graph.  A forward descriptor is seeded  *)
(* with start states and names any goals; a backward descriptor is seeded  *)
(* with its goal states.                                                   *)
Init ==
    /\ \E g \in GraphsOver(Nodes, MaxEdges), seeds \in SeedChoices,
          max_states \in MaxStatesChoices :
          \/ \E goals \in GoalChoices :
                skel = GraphSkeleton(g, goals, seeds, "forward", max_states)
          \/ skel = GraphSkeleton(g, {seeds[i] : i \in 1 .. Len(seeds)}, seeds,
                                  "backward", max_states)
    /\ Fresh

Next ==
    \/ Construct
    \/ ForwardIterate
    \/ ForwardReturn
    \/ BackwardIterate
    \/ BackwardReturn
    \/ Derive
    \/ QueryStep
    \/ QueryDistance
    \/ QueryHasPath
    \/ QueryFullPath

Spec == Init /\ [][Next]_vars

(* SpecInc: the descriptor successors(n) = [(n+1,'inc',1), (n*2,'double',1)], *)
(* seeded at 1 with goal 10, searched forward.  Its graph is infinite, so  *)
(* every run carries a max_states bound.                                   *)
MaxStatesInc == 14

InitInc ==
    /\ \E k \in 1 .. MaxStatesInc :
          skel = [kind |-> "inc",
                  dom |-> [goal |-> 10],
                  has_predecessors |-> FALSE,
                  initial_states |-> <<1>>,
                  direction |-> "forward",
                  cost_type |-> "uniform",
                  max_states |-> Some(k),
                  max_cost |-> NoValue]
    /\ Fresh

(* SpecTM: BellmanPolicy(TMDomain(...).build_skeleton()) *)
MaxOperand == 3
MaxTarget == 5
MaxValueTM == 6

InitTM ==
    /\ \E n1 \in 0 .. MaxOperand, n2 \in 0 .. MaxOperand, target \in 1 .. MaxTarget,
          cost_mode \in {"uniform", "realistic"} :
          skel = build_skeleton([start_n1 |-> n1, start_n2 |-> n2, target |-> target,
                                 ops |-> {"+", "-", "#"}, max_value |-> MaxValueTM,
                                 cost_mode |-> cost_mode])
    /\ Fresh

(* TMDomain and the inc/double descriptor are searched forward only *)
NextForward ==
    \/ Construct
    \/ ForwardIterate
    \/ ForwardReturn
    \/ Derive
    \/ QueryStep
    \/ QueryDistance
    \/ QueryHasPath
    \/ QueryFullPath

SpecInc == InitInc /\ [][NextForward]_vars

SpecTM == InitTM /\ [][NextForward]_vars

(* The constructor is sequential code: once called it keeps executing      *)
(* until it returns or raises.                                             *)
SearchStep ==
    \/ Construct
    \/ ForwardIterate
    \/ ForwardReturn
    \/ BackwardIterate
    \/ BackwardReturn
    \/ Derive

(* SpecLive: the policies of Spec, the constructor running to its end *)
SpecLive == Init /\ [][Next]_vars /\ WF_vars(SearchStep)

(* SpecIncLive: the inc/double descriptor with max_states set to any       *)
(* number from 0 on; validate accepts each of them.                        *)
InitIncAnyBound ==
    /\ \E k \in 0 .. MaxStatesInc :
          skel = [kind |-> "inc",
                  dom |-> [goal |-> 10],
                  has_predecessors |-> FALSE,
                  initial_states |-> <<1>>,
                  direction |-> "forward",
                  cost_type |-> "uniform",
                  max_states |-> Some(k),
                  max_cost |-> NoValue]
    /\ Fresh

SpecIncLive == InitIncAnyBound /\ [][NextForward]_vars /\ WF_vars(SearchStep)

(* SpecDesc: descriptors as a caller may write them, over a chain          *)
(* 0 -> 1 -> ... -> NumStates-1 with an optional second edge from 0 to the *)
(* last state.  Every edge is absent or carries a cost of DescCosts; 2     *)
(* lies outside the cost domain of the 0/1 search.                         *)
DescCosts == {0, 1, 2}
Link == {NoValue} \cup {Some(c) : c \in DescCosts}

ChainGraph(links, skip) ==
    [s \in Nodes |->
        (IF s < NumStates - 1 /\ Len(links[s]) > 0
         THEN <<Edge(s + 1, "a", links[s][1])>> ELSE <<>>)
        \o (IF s = 0 /\ Len(skip) > 0
            THEN <<Edge(NumStates - 1, "b", skip[1])>> ELSE <<>>)]

ChainGraphs == {ChainGraph(links, skip) : links \in [0 .. (NumStates - 2) -> Link], skip \in Link}

MaxStatesDesc == 1
MaxCostDesc == 1

(* max_states and max_cost: None or any integer from -1 on *)
BoundChoices ==
    ({NoValue} \cup {Some(k) : k \in -1 .. MaxStatesDesc})
        \X ({NoValue} \cup {Some(m) : m \in -1 .. MaxCostDesc})

Descriptor(g, goals, seeds, direction, has_predecessors, max_states, max_cost) ==
    [kind |-> "graph",
     dom |-> [succ |-> g, pred |-> InversePred(g), goals |-> goals],
     has_predecessors |-> has_predecessors,
     initial_states |-> seeds,
     direction |-> direction,
     cost_type |-> "zero_one",
     max_states |-> max_states,
     max_cost |-> max_cost]

(* A forward or bidirectional descriptor is seeded with the first state of *)
(* the chain and its goal is the last; a backward descriptor is seeded     *)
(* with the last state, its goal.  The seed tuple may also be empty.       *)
InitDesc ==
    /\ \E g \in ChainGraphs, direction \in {"forward", "backward", "bidirectional"},
          has_predecessors \in BOOLEAN, empty \in BOOLEAN, b \in BoundChoices :
          skel = Descriptor(g, {NumStates - 1},
                            IF empty THEN <<>>
                            ELSE IF direction = "backward" THEN <<NumStates - 1>> ELSE <<0>>,
                            direction, has_predecessors, b[1], b[2])
    /\ Fresh

SpecDesc == InitDesc /\ [][Next]_vars

(* SpecSelect: BellmanPolicy(skeleton, strategy) with the strategy         *)
(* argument None or one of the two strategies, over descriptors of every   *)
(* direction and cost model.  The field strategy_arg of skel remembers the *)
(* argument the constructor was called with.                               *)
CostTypes == {"uniform", "zero_one", "arbitrary"}

Call(sk, strategy_arg) ==
    [f \in (DOMAIN sk) \cup {"strategy_arg"} |->
        IF f = "strategy_arg" THEN strategy_arg ELSE sk[f]]

InitSelect ==
    /\ \E g \in ChainGraphs, direction \in {"forward", "backward", "bidirectional"},
          cost_type \in CostTypes, has_predecessors \in BOOLEAN,
          seed \in {0, NumStates - 1}, strategy_arg \in {None, "forward", "backward"} :
          /\ skel = Call([Descriptor(g, {NumStates - 1}, <<seed>>, direction,
                                     has_predecessors, NoValue, NoValue)
                            EXCEPT !.cost_type = cost_type],
                         strategy_arg)
          /\ strategy = strategy_arg
    /\ pc = "new"
    /\ dist = EmptyMap
    /\ parent = EmptyMap
    /\ queue = <<>>
    /\ expanded = 0
    /\ next_action = EmptyMap
    /\ error = NoError
    /\ popped = <<>>
    /\ query = NoQuery
    /\ readers = NoReaders
    /\ tm = NoMachine

SpecSelect == InitSelect /\ [][Next]_vars

(***************************************************************************)
(* Concurrent readers.  Each reader runs step or get_full_path on the      *)
(* ready policy; readers[r] holds the locals of its call (state / current, *)
(* action, the position i of the loop over successors, path and the        *)
(* number n of iterations made).  A reader's step is one read of the       *)
(* shared policy or one callback; readers interleave between them.         *)
(***************************************************************************)
ReaderOps == {"step", "get_full_path"}

(* the states readers ask about *)
ReaderArgs == {0, 1}

(* step hands (action, next_state) to its caller: the reader itself, or    *)
(* the loop of get_full_path, which stops at a None action and otherwise   *)
(* appends the pair and goes on from next_state                            *)
StepReturns(rd, action, next_state) ==
    IF rd.op = "step"
    THEN [rd EXCEPT !.phase = "done", !.result = <<action, next_state>>]
    ELSE IF action = None
    THEN [rd EXCEPT !.phase = "done", !.result = rd.path]
    ELSE [rd EXCEPT !.phase = "loop",
                    !.path = Append(rd.path, <<action, next_state>>),
                    !.cur = next_state,
                    !.n = rd.n + 1]

Shared == <<skel, pc, strategy, dist, parent, queue, expanded, next_action, error,
            popped, query>>

(* a reader calls step(s) or get_full_path(s) *)
ReaderCall(r) ==
    /\ pc = "ready"
    /\ readers[r].phase = "idle"
    /\ \E op \in ReaderOps, s \in ReaderArgs :
          readers' = [readers EXCEPT ![r] =
                         [phase |-> IF op = "step" THEN "goal" ELSE "loop",
                          op |-> op, arg |-> s, cur |-> s, action |-> None, i |-> 1,
                          path |-> <<>>, n |-> 0, result |-> None]]
    /\ UNCHANGED <<Shared, tm>>

(* get_full_path: the head of an iteration of `for _ in range(max_steps)`  *)
(* with its is_goal(current) test                                          *)
ReaderLoop(r) ==
    /\ readers[r].phase = "loop"
    /\ LET rd == readers[r]
       IN  readers' = [readers EXCEPT ![r] =
                          IF rd.n = MaxSteps \/ is_goal(rd.cur)
                          THEN [rd EXCEPT !.phase = "done", !.result = rd.path]
                          ELSE [rd EXCEPT !.phase = "lookup"]]
    /\ UNCHANGED <<Shared, tm>>

(* step: `if self.skeleton.is_goal(state)` *)
ReaderGoal(r) ==
    /\ readers[r].phase = "goal"
    /\ LET rd == readers[r]
       IN  readers' = [readers EXCEPT ![r] =
                          IF is_goal(rd.cur) THEN StepReturns(rd, None, rd.cur)
                          ELSE [rd EXCEPT !.phase = "lookup"]]
    /\ UNCHANGED <<Shared, tm>>

(* an action read that every reader running shares *)
ReaderLookupShared(r) ==
    /\ readers[r].phase = "lookup"
    /\ LET rd == readers[r]
       IN  readers' =
              IF rd.cur \notin DOMAIN next_action
              THEN [readers EXCEPT ![r] = StepReturns(rd, None, rd.cur)]
              ELSE [q \in Readers |->
                       IF q = r
                       THEN [rd EXCEPT !.phase = "scan", !.action = next_action[rd.cur],
                                       !.i = 1]
                       ELSE IF readers[q].phase = "scan"
                       THEN [readers[q] EXCEPT !.action = next_action[rd.cur]]
                       ELSE readers[q]]
    /\ UNCHANGED <<Shared, tm>>

(* step: `if state not in self._next_action` and the read of the action *)
ReaderLookup(r) ==
    /\ readers[r].phase = "lookup"
    /\ LET rd == readers[r]
       IN  readers' = [readers EXCEPT ![r] =
                          IF rd.cur \notin DOMAIN next_action
                          THEN StepReturns(rd, None, rd.cur)
                          ELSE [rd EXCEPT !.phase = "scan",
                                          !.action = next_action[rd.cur],
                                          !.i = 1]]
    /\ UNCHANGED <<Shared, tm>>

(* step: one iteration of the loop over successors(state), or its end *)
ReaderScan(r) ==
    /\ readers[r].phase = "scan"
    /\ LET rd == readers[r]
           edges == successors(rd.cur)
       IN  readers' = [readers EXCEPT ![r] =
                          IF rd.i > Len(edges) THEN StepReturns(rd, rd.action, rd.cur)
                          ELSE IF edges[rd.i][2] = rd.action
                          THEN StepReturns(rd, rd.action, edges[rd.i][1])
                          ELSE [rd EXCEPT !.i = rd.i + 1]]
    /\ UNCHANGED <<Shared, tm>>

(* the caller takes the result; the reader is free for its next call *)
ReaderFinish(r) ==
    /\ readers[r].phase = "done"
    /\ readers' = [readers EXCEPT ![r] = Idle]
    /\ UNCHANGED <<Shared, tm>>

(* SpecReaders: policies searched backward from the last state of a chain  *)
(* with 0/1 costs, then read concurrently.                                 *)
InitReaders ==
    /\ \E g \in ChainGraphs :
          /\ \A s \in Nodes : \A i \in 1 .. Len(g[s]) : g[s][i][3] \in {0, 1}
          /\ skel = Descriptor(g, {NumStates - 1}, <<NumStates - 1>>, "backward", TRUE,
                               NoValue, NoValue)
    /\ Fresh

NextReaders ==
    \/ Construct
    \/ BackwardIterate
    \/ BackwardReturn
    \/ Derive
    \/ \E r \in Readers : ReaderCall(r)
    \/ \E r \in Readers : ReaderLoop(r)
    \/ \E r \in Readers : ReaderGoal(r)
    \/ \E r \in Readers : ReaderLookup(r)
    \/ \E r \in Readers : ReaderScan(r)
    \/ \E r \in Readers : ReaderFinish(r)

SpecReaders == InitReaders /\ [][NextReaders]_vars

(***************************************************************************)
(* Reference notions the properties are stated against: shortest           *)
(* distances by exhaustive relaxation over the explicit graph.             *)
(***************************************************************************)
SetMin(S) == CHOOSE x \in S : \A y \in S : x <= y

(* one round: every node takes the best of its value and of the value of   *)
(* any node p plus the cost of an edge that gen lists from p to it         *)
RelaxRound(gen, d) ==
    [s \in Nodes |->
        SetMin({d[s]} \cup {Min(Inf, d[p] + gen[p][i][3]) :
                               <<p, i>> \in {<<q, j>> \in Nodes \X (1 .. MaxEdges) :
                                                j <= Len(gen[q]) /\ gen[q][j][1] = s}})]

RECURSIVE RelaxRounds(_, _, _)
RelaxRounds(gen, d, k) == IF k = 0 THEN d ELSE RelaxRounds(gen, RelaxRound(gen, d), k - 1)

SeedSet == {skel.initial_states[i] : i \in 1 .. Len(skel.initial_states)}

(* least cost of a path from a seed to each node along the traversed       *)
(* generator (successors for the forward search, predecessors backward)    *)
SeedDistance ==
    RelaxRounds(IF strategy = "backward" THEN skel.dom.pred ELSE skel.dom.succ,
                [s \in Nodes |-> IF s \in SeedSet THEN 0 ELSE Inf], NumStates)

(* least cost of a successor-path from each node to a goal *)
GoalDistance ==
    RelaxRounds(InversePred(skel.dom.succ),
                [s \in Nodes |-> IF s \in skel.dom.goals THEN 0 ELSE Inf], NumStates)

Ready == pc = "ready"

QueueEmptied == pc \in {"derive", "ready"} /\ queue = <<>>

(* C1: when a search (forward or backward) ends with an empty queue, the   *)
(* distance map holds exactly the states reachable from the seeds through  *)
(* the traversed generator, each with its least path cost from a seed.     *)
C1_ShortestWhenQueueEmpties ==
    QueueEmptied =>
        /\ DOMAIN dist = {s \in Nodes : SeedDistance[s] < Inf}
        /\ \A s \in DOMAIN dist : dist[s] = SeedDistance[s]

(* a search that emptied its queue after dequeuing some state twice, with  *)
(* every node discovered                                                   *)
C1_Witness ==
    /\ QueueEmptied
    /\ DOMAIN dist = Nodes
    /\ expanded > NumStates

(* C2 as claimed: every non-goal state with a finite distance has a        *)
(* successor edge (n, a, c) with distance(n) + c = distance(s), and step   *)
(* returns that edge's action.                                             *)
C2_StepFollowsOptimalEdge ==
    Ready =>
        \A s \in DOMAIN dist :
            ~is_goal(s) =>
                \E i \in 1 .. Len(successors(s)) :
                    /\ distance(successors(s)[i][1]) + successors(s)[i][3] = distance(s)
                    /\ step(s)[1] = successors(s)[i][2]

(* the cost of the edges a walk of step takes from cur along path p *)
RECURSIVE WalkCost(_, _, _)
WalkCost(cur, p, i) ==
    IF i > Len(p) THEN 0
    ELSE successors(cur)[FirstWithAction(successors(cur), p[i][1], 1)][3]
            + WalkCost(p[i][2], p, i + 1)

(* C3 as claimed: from every non-goal state with has_path, repeated step   *)
(* reaches a goal at the least cost of any successor-path to a goal.       *)
C3_WalkReachesGoalOptimally ==
    Ready =>
        \A s \in Nodes :
            (~is_goal(s) /\ has_path(s)) =>
                LET p == get_full_path(s)
                IN  /\ Len(p) > 0
                    /\ is_goal(p[Len(p)][2])
                    /\ WalkCost(s, p, 1) = GoalDistance[s]

(* the TMStates some chain of at most k operations leads to from those of S *)
RECURSIVE ReachWithin(_, _, _)
ReachWithin(dom, S, k) ==
    IF k = 0 THEN S
    ELSE ReachWithin(dom, S \cup UNION {EdgeTargets(_successors(dom, s)) : s \in S}, k - 1)

MaxPlan == 3

(* C4 as claimed: when a goal is reachable from the initial state (which   *)
(* is not itself a goal), get_full_path(initial_state) is non-empty and    *)
(* ends in a goal.                                                         *)
C4_TMPlanReachesTarget ==
    (Ready /\ skel.kind = "tm") =>
        LET start == initial_state(skel.dom)
            p == get_full_path(start)
        IN  (/\ ~is_goal(start)
             /\ \E s \in ReachWithin(skel.dom, {start}, MaxPlan) : is_goal(s))
                => (Len(p) > 0 /\ is_goal(p[Len(p)][2]))

(* C5 as claimed: once the search has discovered 10, distance(10) = 4 and  *)
(* get_full_path(1) has exactly 4 steps, the last into 10.                 *)
C5_IncDoublePath ==
    (Ready /\ skel.kind = "inc" /\ has_path(10)) =>
        /\ distance(10) = 4
        /\ LET p == get_full_path(1)
           IN  Len(p) = 4 /\ p[4][2] = 10

AllCostsOne == \A s \in Nodes : \A i \in 1 .. Len(successors(s)) : successors(s)[i][3] = 1

(* C6 as claimed: with every edge cost 1, the length of get_full_path(s)   *)
(* is distance(s) for every state with a finite distance.                  *)
C6_PathLengthIsDistance ==
    (Ready /\ AllCostsOne) =>
        \A s \in DOMAIN dist : Len(get_full_path(s)) = distance(s)

(* C7 as claimed: a finite distance(s) is the least cost of a              *)
(* successor-path from s to a goal.                                        *)
C7_DistanceIsCostToGoal ==
    Ready => \A s \in DOMAIN dist : distance(s) = GoalDistance[s]

(* C8 as claimed: a non-None step(s) = (a, n) is the successor edge that   *)
(* action derivation selected, so distance(n) + c = distance(s).           *)
C8_StepReturnsDerivedEdge ==
    Ready =>
        \A s \in Nodes :
            step(s)[1] # None =>
                LET k == FirstMatching(dist, s, successors(s), 1)
                IN  /\ k # 0
                    /\ successors(s)[k][2] = step(s)[1]
                    /\ successors(s)[k][1] = step(s)[2]
                    /\ distance(step(s)[2]) + successors(s)[k][3] = distance(s)

(* C9: step(g) returns (None, g) for every goal state g, in the distance   *)
(* map or not, and no goal state has an entry in the next-action map.      *)
C9_GoalHasNoAction ==
    Ready =>
        \A g \in States :
            is_goal(g) => (step(g) = <<None, g>> /\ g \notin DOMAIN next_action)

(* step was asked about a discovered goal that has a successor edge the    *)
(* derivation rule would accept, while another goal is undiscovered        *)
C9_Witness ==
    /\ Ready
    /\ query.op = "step"
    /\ is_goal(query.arg)
    /\ query.arg \in DOMAIN dist
    /\ FirstMatching(dist, query.arg, successors(query.arg), 1) # 0
    /\ \E g \in States : is_goal(g) /\ g \notin DOMAIN dist

(* C10: for a state absent from the distance map (unreachable, unknown or  *)
(* cut off by the bound) step returns (None, s), distance +infinity and    *)
(* has_path false; for every state has_path holds exactly when distance    *)
(* is finite.                                                              *)
C10_AbsentStatesDegrade ==
    Ready =>
        \A s \in States :
            /\ s \notin DOMAIN dist =>
                  (step(s) = <<None, s>> /\ distance(s) = Inf /\ ~has_path(s))
            /\ has_path(s) <=> distance(s) < Inf

(* step was asked about a state the bound cut off: the queue was not       *)
(* empty, and the state is reachable from a seed                           *)
C10_Witness ==
    /\ Ready
    /\ skel.kind = "graph"
    /\ queue # <<>>
    /\ query.op = "step"
    /\ query.arg \notin DOMAIN dist
    /\ SeedDistance[query.arg] < Inf
    /\ query.result = <<None, query.arg>>

(* C11 as claimed: from every state the walk of repeated step never        *)
(* revisits a state, so get_full_path never runs into its max_steps cap,   *)
(* zero-cost edges included.                                               *)
C11_NextActionAcyclic ==
    Ready =>
        \A s \in States :
            LET p == get_full_path(s)
                visited == <<s>> \o [k \in 1 .. Len(p) |-> p[k][2]]
            IN  /\ Len(p) < MaxSteps
                /\ \A i, j \in 1 .. Len(visited) : visited[i] = visited[j] => i = j

(* C12: with max_states = k >= 1 the search dequeues at most k states and  *)
(* raises no error; a state those expansions did not discover is absent    *)
(* from the distance map and has_path is false for it, also when a path    *)
(* from a seed to it exists.                                               *)
C12_BoundTruncates ==
    \A k \in 1 .. MaxStatesBound :
        skel.max_states = Some(k) =>
            /\ expanded <= k
            /\ pc # "failed" /\ error = NoError
            /\ (pc \in {"derive", "ready"} /\ queue # <<>>) => expanded = k
            /\ Ready => \A s \in States : s \notin DOMAIN dist => ~has_path(s)

(* max_states = 1 on a forward descriptor whose goal needs two expansions: *)
(* the goal can be reached from the seed, and has_path(goal) returned false *)
C12_Witness ==
    /\ Ready
    /\ skel.max_states = Some(1)
    /\ strategy = "forward"
    /\ expanded = 1
    /\ query.op = "has_path"
    /\ is_goal(query.arg)
    /\ SeedDistance[query.arg] < Inf
    /\ query.result = FALSE

C14_MaxCostLimitsDistances ==
    \A m \in 0 .. MaxCostDesc :
        skel.max_cost = Some(m) => \A s \in DOMAIN dist : dist[s] <= m

(* the edges the running search reads when it expands state *)
generator(state) == IF strategy = "backward" THEN predecessors(state) ELSE successors(state)

RECURSIVE FirstBadCost(_, _)
FirstBadCost(edges, i) ==
    IF i > Len(edges) THEN 0
    ELSE IF edges[i][3] \notin {0, 1} THEN i
    ELSE FirstBadCost(edges, i + 1)

(* C15: an iteration of the search that meets an edge with a cost other    *)
(* than 0 or 1 raises the cost-domain error for the first such edge and    *)
(* hands back no maps, and an iteration that meets none does not raise; a  *)
(* search the bound stops returns whatever edges it has not examined; and  *)
(* a failed construction is the end of the policy: nothing can be asked of *)
(* it.                                                                     *)
C15_BadCostFailsConstruction ==
    [][/\ pc # "failed"
       /\ (pc = "search" /\ BoundHit(skel.max_states, expanded)) => pc' = "derive"
       /\ (pc = "search" /\ expanded' = expanded + 1) =>
             LET state == Head(queue)
                 edges == generator(state)
                 k == FirstBadCost(edges, 1)
             IN  IF k = 0
                 THEN pc' = "search" /\ error' = NoError
                 ELSE /\ pc' = "failed"
                      /\ error' = IF strategy = "backward"
                                  THEN CostError(edges[k][1], edges[k][2], state, edges[k][3])
                                  ELSE CostError(state, edges[k][2], edges[k][1], edges[k][3])
                      /\ dist' = EmptyMap /\ parent' = EmptyMap /\ next_action' = EmptyMap
                      /\ query' = NoQuery]_vars

(* the second expansion of a search met the edge of cost 2, after the      *)
(* first had recorded a distance: construction failed and kept no map      *)
C15_Witness ==
    /\ pc = "failed"
    /\ error.kind = "cost"
    /\ error.cost = 2
    /\ expanded = 2
    /\ dist = EmptyMap

NeedsPredecessors(sk) ==
    sk.direction \in {"backward", "bidirectional"} /\ ~sk.has_predecessors

(* C16: a descriptor with direction backward or bidirectional and no       *)
(* predecessors callback fails validate with the configuration error, and  *)
(* construction ends there: no strategy is chosen and no search is seeded  *)
(* or run, so no callback of the domain is invoked.                        *)
C16_MissingPredecessorsRejected ==
    NeedsPredecessors(skel) =>
        /\ pc \in {"new", "failed"}
        /\ pc = "failed" =>
              error = [kind |-> "config", msg |-> "Direction benoetigt predecessors-Callback"]
        /\ strategy = None
        /\ expanded = 0
        /\ dist = EmptyMap /\ parent = EmptyMap /\ queue = <<>>
        /\ next_action = EmptyMap

(* construction was refused for a bidirectional descriptor without         *)
(* predecessors whose seed has a successor edge                            *)
C16_Witness ==
    /\ pc = "failed"
    /\ error.kind = "config"
    /\ skel.direction = "bidirectional"
    /\ ~skel.has_predecessors
    /\ Len(skel.initial_states) > 0
    /\ Len(successors(skel.initial_states[1])) > 0

(* C17 as claimed: validate fails for every descriptor whose initial_states *)
(* is empty, so construction from an empty seed set goes no further than   *)
(* the configuration error.                                                *)
C17_EmptySeedsRejected ==
    Len(skel.initial_states) = 0 =>
        /\ pc \in {"new", "failed"}
        /\ pc = "failed" => error.kind = "config"

(* C18 as claimed: validate fails when max_states is set and <= 0 or       *)
(* max_cost is set and < 0, so a descriptor that reaches the search has    *)
(* max_states unset or strictly positive.                                  *)
C18_BoundsInLegalRange ==
    /\ ((Len(skel.max_states) > 0 /\ skel.max_states[1] <= 0)
           \/ (Len(skel.max_cost) > 0 /\ skel.max_cost[1] < 0))
          => (pc \in {"new", "failed"} /\ (pc = "failed" => error.kind = "config"))
    /\ pc = "search" => (skel.max_states = NoValue \/ skel.max_states[1] > 0)

(* C19: a query on a ready policy changes neither the distance, parent nor *)
(* next-action map (nor the descriptor), whatever was asked before it, and *)
(* a call repeated with the same argument returns what it returned before. *)
C19_QueriesAreIdempotent ==
    [][pc = "ready" =>
          /\ UNCHANGED <<skel, pc, strategy, dist, parent, next_action>>
          /\ query'.op \in {"step", "distance", "has_path", "get_full_path"}
          /\ (query.op = query'.op /\ query.arg = query'.arg)
                => query'.result = query.result]_vars

(* step answered with an action and a next state on a policy whose         *)
(* next-action map has entries                                             *)
C19_Witness ==
    /\ Ready
    /\ query.op = "step"
    /\ query.arg \in DOMAIN next_action
    /\ query.result[1] # None
    /\ query.result[2] # query.arg

(* C20: whatever the other readers do in between, a reader's finished call  *)
(* holds the result the same call gives when it runs alone.                *)
C20_ReadersGetSequentialResults ==
    \A r \in Readers :
        readers[r].phase = "done" =>
            readers[r].result = IF readers[r].op = "step"
                                THEN step(readers[r].arg)
                                ELSE get_full_path(readers[r].arg)

(* one reader finished a get_full_path of two steps while another reader   *)
(* was inside the successor scan of a step on a different state            *)
C20_Witness ==
    \E r, q \in Readers :
        /\ r # q
        /\ readers[r].phase = "done"
        /\ readers[r].op = "get_full_path"
        /\ Len(readers[r].result) >= 2
        /\ readers[q].phase = "scan"
        /\ readers[q].op = "step"
        /\ readers[q].arg # readers[r].arg

(* C21: called without a strategy, the constructor chooses by the          *)
(* descriptor's direction alone: backward gives the backward search,       *)
(* forward and bidirectional the forward search, whatever the cost model.  *)
C21_DirectionSelectsStrategy ==
    (skel.strategy_arg = None /\ pc \in {"search", "derive", "ready"}) =>
        strategy = IF skel.direction = "backward" THEN "backward" ELSE "forward"

(* the backward search was chosen for a backward descriptor with the       *)
(* arbitrary cost model, and it ran                                        *)
C21_Witness ==
    /\ skel.strategy_arg = None
    /\ skel.cost_type = "arbitrary"
    /\ skel.direction = "backward"
    /\ strategy = "backward"
    /\ Ready
    /\ expanded >= 2

(* least path costs from the seeds along the generator strat traverses *)
SeedDistanceBy(strat) ==
    RelaxRounds(IF strat = "backward" THEN skel.dom.pred ELSE skel.dom.succ,
                [s \in Nodes |-> IF s \in SeedSet THEN 0 ELSE Inf], NumStates)

(* C22: called with a strategy, the constructor uses that strategy for     *)
(* every descriptor that passes validate: the search that runs is the      *)
(* given one, and the maps it leaves are those of the given strategy's     *)
(* generator, whatever the direction and cost model say.                   *)
C22_ExplicitStrategyOverrides ==
    (skel.strategy_arg # None /\ pc \in {"search", "derive", "ready"}) =>
        /\ strategy = skel.strategy_arg
        /\ QueueEmptied =>
              /\ DOMAIN dist = {s \in Nodes : SeedDistanceBy(skel.strategy_arg)[s] < Inf}
              /\ \A s \in DOMAIN dist : dist[s] = SeedDistanceBy(skel.strategy_arg)[s]

(* the forward strategy was given for a backward descriptor: the policy    *)
(* holds forward distances from the seed, which differ from the backward   *)
(* ones                                                                    *)
C22_Witness ==
    /\ skel.strategy_arg = "forward"
    /\ skel.direction = "backward"
    /\ Ready
    /\ Cardinality(DOMAIN dist) >= 2
    /\ \E s \in Nodes : SeedDistanceBy("forward")[s] # SeedDistanceBy("backward")[s]

Rank(p) ==
    CASE p = "new" -> 0
      [] p = "search" -> 1
      [] p = "derive" -> 2
      [] p = "ready" -> 3
      [] p = "failed" -> 4

(* C23: the search is entered once, from the constructor after validate,   *)
(* and left once, before action derivation; a ready policy stays ready and *)
(* no query touches the maps or the counters of the search.                *)
C23_ComputeRunsOnce ==
    [][/\ Rank(pc') >= Rank(pc)
       /\ (pc' = "search" /\ pc # "search") => (pc = "new" /\ validate(skel) = "ok")
       /\ (pc = "search" /\ pc' # "search") => pc' \in {"derive", "failed"}
       /\ pc = "derive" => (pc' = "ready" /\ UNCHANGED <<dist, parent, expanded>>)
       /\ pc = "ready" => UNCHANGED <<pc, strategy, dist, parent, queue, expanded, popped>>]_vars

(* a query was answered by a policy whose search had made two expansions *)
C23_Witness ==
    /\ Ready
    /\ expanded >= 2
    /\ query.op = "distance"
    /\ query.result = 2

(***************************************************************************)
(* The Turing machine of exercise/tm/components for unary addition and     *)
(* subtraction: Tape, TransitionBuilder and TuringMachine.  A tape string  *)
(* is a sequence of one-character symbols.                                 *)
(***************************************************************************)
(* the largest operand of a machine run *)
MaxUnary == 3

BLANK == "_"

Lowest(S) == CHOOSE x \in S : \A y \in S : x <= y
Highest(S) == CHOOSE x \in S : \A y \in S : x >= y

(* Tape.from_string: only the cells that are not blank are stored *)
from_string(s) ==
    [i \in {j - 1 : j \in {k \in 1 .. Len(s) : s[k] # BLANK}} |-> s[i + 1]]

read(cells, head) == IF head \in DOMAIN cells THEN cells[head] ELSE BLANK

(* a write that stores the blank like any other symbol *)
WriteStoringBlank(cells, head, ch) ==
    [i \in (DOMAIN cells) \cup {head} |-> IF i = head THEN ch ELSE cells[i]]

(* Tape.write: writing the blank removes the cell *)
write(cells, head, ch) ==
    IF ch = BLANK
    THEN [i \in (DOMAIN cells) \ {head} |-> cells[i]]
    ELSE [i \in (DOMAIN cells) \cup {head} |-> IF i = head THEN ch ELSE cells[i]]

(* Tape.erase *)
erase(cells, head) == write(cells, head, BLANK)

(* Tape.at_blank *)
at_blank(cells, head) == read(cells, head) = BLANK

move(head, direction) ==
    CASE direction = "R" -> head + 1
      [] direction = "L" -> head - 1
      [] direction = "N" -> head

(* Tape.snapshot: the cells from the lowest to the highest stored index *)
snapshot(cells) ==
    IF DOMAIN cells = {} THEN <<>>
    ELSE LET lo == Lowest(DOMAIN cells)
             hi == Highest(DOMAIN cells)
         IN  [i \in 1 .. (hi - lo + 1) |-> read(cells, lo + i - 1)]

IsSymbol(ch, symbol) == ch = symbol

collect_all(cells, symbol) ==
    SelectSeq(snapshot(cells), LAMBDA ch : IsSymbol(ch, symbol))

(* TransitionBuilder.add / add_same on the table d; symbols is a set *)
add(d, state, symbols, w, mv, next_state) ==
    [k \in (DOMAIN d) \cup {<<state, sym>> : sym \in symbols} |->
        IF k[1] = state /\ k[2] \in symbols THEN <<w, mv, next_state>> ELSE d[k]]

add_same(d, state, symbols, mv, next_state) ==
    [k \in (DOMAIN d) \cup {<<state, sym>> : sym \in symbols} |->
        IF k[1] = state /\ k[2] \in symbols THEN <<k[2], mv, next_state>> ELSE d[k]]

(* an addition table that turns the '+' into a '1' instead of erasing it *)
AdditionDeltaPlusToOne ==
    LET t1 == add(EmptyMap, "START", {"1"}, "1", "R", "PLUS_SCAN")
        t2 == add(t1, "START", {"+"}, "1", "R", "PLUS_SEEK_END")
        t3 == add_same(t2, "START", {BLANK, "-"}, "N", "REJECT")
        t4 == add(t3, "PLUS_SCAN", {"1"}, "1", "R", "PLUS_SCAN")
        t5 == add(t4, "PLUS_SCAN", {"+"}, "1", "R", "PLUS_SEEK_END")
        t6 == add_same(t5, "PLUS_SCAN", {BLANK, "-"}, "N", "REJECT")
        t7 == add(t6, "PLUS_SEEK_END", {"1"}, "1", "R", "PLUS_SEEK_END")
    IN  add(t7, "PLUS_SEEK_END", {BLANK}, BLANK, "N", "ACCEPT")

_build_addition_delta ==
    LET t1 == add(EmptyMap, "START", {"1"}, "1", "R", "PLUS_SCAN")
        t2 == add(t1, "START", {"+"}, BLANK, "R", "PLUS_SEEK_END")
        t3 == add_same(t2, "START", {BLANK, "-"}, "N", "REJECT")
        t4 == add(t3, "PLUS_SCAN", {"1"}, "1", "R", "PLUS_SCAN")
        t5 == add(t4, "PLUS_SCAN", {"+"}, BLANK, "R", "PLUS_SEEK_END")
        t6 == add_same(t5, "PLUS_SCAN", {BLANK, "-"}, "N", "REJECT")
        t7 == add(t6, "PLUS_SEEK_END", {"1"}, "1", "R", "PLUS_SEEK_END")
    IN  add(t7, "PLUS_SEEK_END", {BLANK}, BLANK, "N", "ACCEPT")

(* the subtraction table with its last two groups of entries left open:    *)
(* at_bound is the state entered when SUB_MATCH_L reads 'L', at_mark the   *)
(* state entered when SUB_RETURN_TO_R reads 'x'                            *)
SubtractionDelta(at_bound, at_mark) ==
    LET t1 == add(EmptyMap, "START", {"1"}, "1", "L", "SUB_PLACE_LBOUND")
        t2 == add(t1, "START", {"-"}, "-", "L", "SUB_PLACE_LBOUND")
        t3 == add_same(t2, "START", {BLANK, "+"}, "N", "REJECT")
        t4 == add(t3, "SUB_PLACE_LBOUND", {BLANK}, "L", "R", "SUB_AFTER_LBOUND")
        t5 == add(t4, "SUB_AFTER_LBOUND", {"1"}, "1", "R", "SUB_SCAN_TO_MINUS")
        t6 == add(t5, "SUB_AFTER_LBOUND", {"-"}, "-", "R", "SUB_SCAN_R")
        t7 == add_same(t6, "SUB_AFTER_LBOUND", {BLANK, "L", "x", "+"}, "N", "REJECT")
        t8 == add(t7, "SUB_SCAN_TO_MINUS", {"1"}, "1", "R", "SUB_SCAN_TO_MINUS")
        t9 == add(t8, "SUB_SCAN_TO_MINUS", {"-"}, "-", "R", "SUB_SCAN_R")
        t10 == add(t9, "SUB_SCAN_TO_MINUS", {BLANK}, BLANK, "N", "REJECT")
        t11 == add(t10, "SUB_SCAN_R", {"1"}, "x", "L", "SUB_SEEK_LEFT_THROUGH_MINUS")
        t12 == add(t11, "SUB_SCAN_R", {BLANK}, BLANK, "L", "SUB_CLEANUP_MINUS")
        t13 == add_same(t12, "SUB_CLEANUP_MINUS", {"1", BLANK}, "L", "SUB_CLEANUP_MINUS")
        t14 == add(t13, "SUB_CLEANUP_MINUS", {"-"}, BLANK, "N", "ACCEPT")
        t15 == add_same(t14, "SUB_SEEK_LEFT_THROUGH_MINUS", {"1", BLANK}, "L",
                        "SUB_SEEK_LEFT_THROUGH_MINUS")
        t16 == add(t15, "SUB_SEEK_LEFT_THROUGH_MINUS", {"-"}, "-", "L", "SUB_MATCH_L")
        t17 == add(t16, "SUB_MATCH_L", {"1"}, BLANK, "R", "SUB_RETURN_TO_R")
        t18 == add(t17, "SUB_MATCH_L", {BLANK}, BLANK, "L", "SUB_MATCH_L")
        t19 == add(t18, "SUB_MATCH_L", {"L"}, "L", "N", at_bound)
        t20 == add(t19, "SUB_MATCH_L", {"-"}, "-", "N", "REJECT")
        t21 == add_same(t20, "SUB_RETURN_TO_R", {"1", "-", BLANK}, "R", "SUB_RETURN_TO_R")
        t22 == add(t21, "SUB_RETURN_TO_R", {"x"}, "x", "N", at_mark)
    IN  add(t22, "SUB_UNMARK_DELETE_R", {"x", "1"}, BLANK, "R", "SUB_SCAN_R")

(* a subtraction table that accepts when the left operand is used up *)
SubtractionDeltaAcceptingAtBound == SubtractionDelta("ACCEPT", "SUB_UNMARK_DELETE_R")

(* a subtraction table that stays on the mark 'x' once it is back at it *)
SubtractionDeltaStuckAtMark == SubtractionDelta("REJECT", "SUB_RETURN_TO_R")

_build_subtraction_delta == SubtractionDelta("REJECT", "SUB_UNMARK_DELETE_R")

Halting == {"ACCEPT", "REJECT"}

(* how far the micro-step loop of one run is followed: more than any run   *)
(* with operands up to MaxUnary takes                                      *)
MachineStepCap == (2 * MaxUnary + 4) * (MaxUnary + 2)

Ones(n) == [i \in 1 .. n |-> "1"]

(* TuringMachine._make_input: '1'*n1 + op + '1'*n2 *)
_make_input(n1, op, n2) == Ones(n1) \o <<op>> \o Ones(n2)

(* TuringMachine._validate_inputs: the message of the ValueError, or "ok" *)
_validate_inputs(n1, op, n2) ==
    IF op \notin {"+", "-"} THEN "op muss '+' oder '-' sein."
    ELSE IF n1 < 0 \/ n2 < 0 THEN "n1 und n2 müssen natürliche Zahlen (>= 0) sein."
    ELSE "ok"

_build_delta(op) ==
    IF op = "+" THEN _build_addition_delta ELSE _build_subtraction_delta

(* a TuringMachine(n1, op, n2) after construction *)
NewMachine(n1, op, n2) ==
    [pc |-> "new", n1 |-> n1, op |-> op, n2 |-> n2,
     cells |-> EmptyMap, head |-> 0, result |-> <<>>, steps |-> 0,
     state |-> "START", trace |-> <<>>, delta |-> EmptyMap, raised |-> "none",
     runs |-> 0, run_steps |-> 0, calls |-> 0]

_trace_step(m) == [m EXCEPT !.trace = Append(m.trace, <<m.head, m.state>>)]

(* run_operation up to the micro-step loop: validate, build the input and  *)
(* the tape, set START, build the table, trace the first snapshot; steps   *)
(* and trace are the object's and are not set here. runs counts the calls  *)
(* on the object, run_steps the delta transitions of the call under way    *)
Enter(m) ==
    LET v == _validate_inputs(m.n1, m.op, m.n2)
    IN  IF v # "ok"
        THEN [m EXCEPT !.pc = "raised", !.raised = v, !.runs = m.runs + 1]
        ELSE _trace_step([m EXCEPT !.pc = "running",
                                   !.cells = from_string(_make_input(m.n1, m.op, m.n2)),
                                   !.head = 0,
                                   !.state = "START",
                                   !.delta = _build_delta(m.op),
                                   !.runs = m.runs + 1,
                                   !.run_steps = 0])

run_operation ==
    /\ tm.pc = "new"
    /\ tm' = Enter(tm)
    /\ UNCHANGED <<Shared, readers>>

(* TuringMachine._reject *)
_reject(m) == [m EXCEPT !.result = <<>>, !.state = "REJECT"]

(* whether delta has an entry for the state and the symbol under the head *)
HasEntry(m) == <<m.state, read(m.cells, m.head)>> \in DOMAIN m.delta

(* a step that counts the rejection of a missing entry as a micro-step *)
StepCountingRejected(m) ==
    IF ~HasEntry(m)
    THEN _trace_step([_reject(m) EXCEPT !.steps = m.steps + 1])
    ELSE LET t == m.delta[<<m.state, read(m.cells, m.head)>>]
         IN  _trace_step([m EXCEPT !.cells = write(m.cells, m.head, t[1]),
                                   !.head = move(m.head, t[2]),
                                   !.state = t[3],
                                   !.steps = m.steps + 1])

(* TuringMachine.step *)
MachineStep(m) ==
    IF ~HasEntry(m)
    THEN _trace_step(_reject(m))
    ELSE LET t == m.delta[<<m.state, read(m.cells, m.head)>>]
         IN  _trace_step([m EXCEPT !.cells = write(m.cells, m.head, t[1]),
                                   !.head = move(m.head, t[2]),
                                   !.state = t[3],
                                   !.steps = m.steps + 1])

(* one iteration of the loop of _run_operation_steps *)
TuringMachine_step ==
    /\ tm.pc = "running"
    /\ tm.state \notin Halting
    /\ tm.steps < MachineStepCap * tm.runs
    /\ tm' = [MachineStep(tm) EXCEPT
                 !.run_steps = IF HasEntry(tm) THEN tm.run_steps + 1 ELSE tm.run_steps]
    /\ UNCHANGED <<Shared, readers>>

(* after the loop: the output is rebuilt from the tape and returned *)
ReconstructOutput ==
    /\ tm.pc = "running"
    /\ tm.state \in Halting
    /\ tm' = [tm EXCEPT !.pc = "returned",
                        !.result = IF tm.state = "ACCEPT"
                                   THEN collect_all(tm.cells, "1") ELSE <<>>]
    /\ UNCHANGED <<Shared, readers>>

Operators == {"+", "-", "*"}

(* no policy is under observation *)
NoSkeleton == [kind |-> "none"]

(* SpecMachine: one TuringMachine per operator and pair of operands, the   *)
(* ill-formed ones included, and one call of run_operation on it           *)
InitMachine ==
    /\ skel = NoSkeleton
    /\ pc = "none"
    /\ strategy = None
    /\ dist = EmptyMap
    /\ parent = EmptyMap
    /\ queue = <<>>
    /\ expanded = 0
    /\ next_action = EmptyMap
    /\ error = NoError
    /\ popped = <<>>
    /\ query = NoQuery
    /\ readers = NoReaders
    /\ \E n1 \in -1 .. MaxUnary, n2 \in -1 .. MaxUnary, op \in Operators :
          tm = NewMachine(n1, op, n2)

NextMachine ==
    \/ run_operation
    \/ TuringMachine_step
    \/ ReconstructOutput

SpecMachine == InitMachine /\ [][NextMachine]_vars

(* the interpreter runs the call to its end *)
SpecMachineLive == InitMachine /\ [][NextMachine]_vars /\ WF_vars(NextMachine)

WellFormed == tm.op \in {"+", "-"} /\ tm.n1 >= 0 /\ tm.n2 >= 0

(* Claim C24: for all n1, n2 >= 0, TuringMachine(n1, '+', n2).run_operation() *)
(* halts in ACCEPT and its output is exactly n1 + n2 symbols '1': the run  *)
(* never enters REJECT, takes at most n1 + n2 + 2 micro-steps, and what it *)
(* returns is ACCEPT with n1 + n2 ones.                                    *)
C24_AdditionAccepts ==
    (tm.op = "+" /\ WellFormed /\ tm.pc \in {"running", "returned"}) =>
        /\ tm.state # "REJECT"
        /\ tm.steps <= tm.n1 + tm.n2 + 2
        /\ (tm.state = "ACCEPT" => tm.steps = tm.n1 + tm.n2 + 2)
        /\ tm.pc = "returned" =>
              (tm.state = "ACCEPT" /\ tm.result = Ones(tm.n1 + tm.n2))

C24_Witness ==
    /\ tm.op = "+" /\ tm.n1 = 2 /\ tm.n2 = 1
    /\ tm.pc = "returned"
    /\ tm.state = "ACCEPT"
    /\ tm.result = <<"1", "1", "1">>

C26_MachineHalts ==
    /\ (WellFormed /\ tm.pc = "new") ~> (tm.pc = "returned" /\ tm.state \in Halting)
    /\ [][(tm.pc # "new" /\ tm.state \in Halting) =>
             /\ tm'.state = tm.state
             /\ tm'.steps = tm.steps
             /\ tm'.cells = tm.cells
             /\ tm'.head = tm.head
             /\ tm'.trace = tm.trace]_vars

C26_Witness ==
    /\ tm.op = "-" /\ tm.n1 = 3 /\ tm.n2 = 2
    /\ tm.pc = "returned"
    /\ tm.state = "ACCEPT"
    /\ tm.steps = 26

(* Claim C27: during a 0/1-BFS run the queue is processed in               *)
(* non-decreasing distance order: for any two consecutive dequeues the     *)
(* recorded distance of the later dequeued state, at the moment it is      *)
(* dequeued, is at least that of the earlier one at its moment, also for   *)
(* states that were enqueued more than once.                               *)
C27_DequeuesInDistanceOrder ==
    \A i \in 1 .. (Len(popped) - 1) : popped[i + 1][2] >= popped[i][2]

(* Claim C27, amended: two consecutive dequeues are in non-decreasing      *)
(* distance order unless the later one takes out a state that was already  *)
(* dequeued earlier in the run (the entry left behind when its distance    *)
(* was lowered and it was enqueued again at the front).                    *)
C27_FirstDequeuesInDistanceOrder ==
    \A i \in 1 .. (Len(popped) - 1) :
        \/ popped[i + 1][2] >= popped[i][2]
        \/ \E j \in 1 .. i : popped[j][1] = popped[i + 1][1]

C27_Witness ==
    /\ Len(popped) >= 4
    /\ \E i \in 1 .. (Len(popped) - 1) :
          /\ popped[i + 1][2] < popped[i][2]
          /\ \E j \in 1 .. i : popped[j] = popped[i + 1]
    /\ \E i \in 1 .. (Len(popped) - 1) :
          /\ popped[i + 1][2] > popped[i][2]
          /\ \A j \in 1 .. i : popped[j][1] # popped[i + 1][1]

(* n is written by the step: discovered by it or given a smaller distance *)
Written(n) == n \notin DOMAIN dist \/ dist'[n] < dist[n]

(* the entries of the queue after the step, less the ones that stayed:     *)
(* front of them f entries, behind them the rest                           *)
AddedInFront(f) == {queue'[i] : i \in 1 .. f}
AddedAtBack(f) == {queue'[i] : i \in (f + Len(queue)) .. Len(queue')}

(* Claim C28: in every relaxation step a state n is written and enqueued   *)
(* only if it is undiscovered or the candidate d(s)+w is strictly smaller  *)
(* than its recorded distance, and it is then pushed to the front when     *)
(* w = 0 and to the back when w = 1; so no recorded distance ever          *)
(* increases, every seed keeps distance 0 and all recorded distances are   *)
(* non-negative.                                                           *)
C28_RelaxationOnlyImproves ==
    [][(pc' \in {"search", "derive"}) =>
         /\ \A n \in DOMAIN dist' : dist'[n] >= 0
         /\ \A n \in SeedSet : n \in DOMAIN dist' /\ dist'[n] = 0
         /\ \A n \in DOMAIN dist : n \in DOMAIN dist' /\ dist'[n] <= dist[n]
         /\ (pc = "search" /\ expanded' = expanded + 1) =>
               LET d_s == dist[Head(queue)]
               IN  \E f \in 0 .. (Len(queue') - Len(queue) + 1) :
                      /\ SubSeq(queue', f + 1, f + Len(queue) - 1) = Tail(queue)
                      /\ \A n \in AddedInFront(f) : Written(n) /\ dist'[n] = d_s
                      /\ \A n \in AddedAtBack(f) : Written(n) /\ dist'[n] <= d_s + 1
                      /\ \A n \in DOMAIN dist' :
                            Written(n) =>
                               IF dist'[n] = d_s + 1 THEN n \in AddedAtBack(f)
                               ELSE n \in AddedInFront(f)]_vars

C28_Witness ==
    /\ pc = "search"
    /\ expanded = 1
    /\ Len(queue) = 3
    /\ \E n \in DOMAIN dist : n \notin SeedSet /\ dist[n] = 0 /\ queue[1] = n
    /\ \E n \in DOMAIN dist : dist[n] = 1 /\ queue[Len(queue)] = n

(* the generator the running search traverses *)
Traversed(s) == IF strategy = "backward" THEN predecessors(s) ELSE successors(s)

(* Claim C29: at every point of the search the key set of the parent map   *)
(* is exactly the set of discovered states minus the seeds; and when the   *)
(* queue has emptied, for every such state n with parent[n] = (s, a) the   *)
(* traversed generator lists for s an edge to n with action a and a cost w *)
(* such that dist[n] = dist[s] + w.                                        *)
C29_ParentEdgesAreTight ==
    /\ pc \in {"search", "derive", "ready"} => DOMAIN parent = (DOMAIN dist) \ SeedSet
    /\ QueueEmptied =>
          \A n \in DOMAIN parent :
             LET s == parent[n][1]
                 a == parent[n][2]
             IN  /\ s \in DOMAIN dist
                 /\ \E i \in 1 .. Len(Traversed(s)) :
                       /\ Traversed(s)[i][1] = n
                       /\ Traversed(s)[i][2] = a
                       /\ dist[n] = dist[s] + Traversed(s)[i][3]

C29_Witness ==
    /\ QueueEmptied
    /\ Cardinality(DOMAIN parent) = 2
    /\ \E i \in 1 .. Len(popped) : \E j \in 1 .. (i - 1) : popped[j][1] = popped[i][1]
    /\ \E n \in DOMAIN parent : dist[n] = dist[parent[n][1]]
    /\ \E n \in DOMAIN parent : dist[n] = dist[parent[n][1]] + 1

(***************************************************************************)
(* zero_one_bfs_forward and zero_one_bfs_backward as whole calls on one    *)
(* generator f (a map from each state to the list of triples it yields).   *)
(***************************************************************************)
RECURSIVE ForwardLoop(_, _, _, _)
ForwardLoop(f, max_states, n, st) ==
    IF st.queue = <<>> \/ BoundHit(max_states, n) \/ st.error.kind # "none" THEN st
    ELSE ForwardLoop(f, max_states, n + 1,
                     ExpandForward(Head(st.queue), f[Head(st.queue)], 1,
                                   [st EXCEPT !.queue = Tail(st.queue)]))

zero_one_bfs_forward(seeds, f, max_states) ==
    ForwardLoop(f, max_states, 0, SeedSearch(seeds, 1, EmptySearch))

RECURSIVE BackwardLoop(_, _, _, _)
BackwardLoop(f, max_states, n, st) ==
    IF st.queue = <<>> \/ BoundHit(max_states, n) \/ st.error.kind # "none" THEN st
    ELSE BackwardLoop(f, max_states, n + 1,
                      ExpandBackward(Head(st.queue), f[Head(st.queue)], 1,
                                     [st EXCEPT !.queue = Tail(st.queue)]))

(* a backward search that never looks at max_states *)
BackwardUnbounded(seeds, f, max_states) ==
    BackwardLoop(f, NoValue, 0, SeedSearch(seeds, 1, EmptySearch))

zero_one_bfs_backward(seeds, f, max_states) ==
    BackwardLoop(f, max_states, 0, SeedSearch(seeds, 1, EmptySearch))

(* what a call hands back: the two maps, or the ValueError it raises *)
Returned(st) ==
    IF st.error.kind # "none"
    THEN [raised |-> TRUE, error |-> st.error, dist |-> EmptyMap, parent |-> EmptyMap]
    ELSE [raised |-> FALSE, error |-> NoError, dist |-> st.dist, parent |-> st.parent]

(* the forward variant is called on the generator, seeds and bound *)
CallForward ==
    /\ pc = "call"
    /\ LET r == Returned(zero_one_bfs_forward(skel.seeds, skel.f, skel.max_states))
       IN  /\ dist' = r.dist
           /\ parent' = r.parent
           /\ error' = r.error
    /\ pc' = "forward_returned"
    /\ UNCHANGED <<skel, strategy, queue, expanded, next_action, popped, query, readers, tm>>

(* then the backward variant, on the same arguments *)
CallBackward ==
    /\ pc = "forward_returned"
    /\ query' = [op |-> "zero_one_bfs_backward",
                 result |-> Returned(zero_one_bfs_backward(skel.seeds, skel.f, skel.max_states))]
    /\ pc' = "both_returned"
    /\ UNCHANGED <<skel, strategy, dist, parent, queue, expanded, next_action, error,
                   popped, readers, tm>>

(* SpecBoth: every generator over the nodes with up to MaxEdges triples,   *)
(* one or two seeds, and no bound or a bound from 0 to MaxStatesBound      *)
InitBoth ==
    /\ \E f \in GraphsOver(Nodes, MaxEdges), seeds \in SeedChoices,
          max_states \in {NoValue} \cup {Some(k) : k \in 0 .. MaxStatesBound} :
          skel = [kind |-> "call", f |-> f, seeds |-> seeds, max_states |-> max_states]
    /\ pc = "call"
    /\ strategy = None
    /\ dist = EmptyMap
    /\ parent = EmptyMap
    /\ queue = <<>>
    /\ expanded = 0
    /\ next_action = EmptyMap
    /\ error = NoError
    /\ popped = <<>>
    /\ query = NoQuery
    /\ readers = NoReaders
    /\ tm = NoMachine

NextBoth ==
    \/ CallForward
    \/ CallBackward

SpecBoth == InitBoth /\ [][NextBoth]_vars

(* the forward search names the edge as popped state --[action]-> yielded  *)
(* state, the backward search as yielded state --[action]-> popped state   *)
SameEdge(fw, bw) ==
    /\ fw.kind = "cost" /\ bw.kind = "cost"
    /\ fw.action = bw.action
    /\ fw.cost = bw.cost
    /\ fw.src = bw.tgt
    /\ fw.tgt = bw.src

OnOptimalPath(s, i) ==
    LET e == successors(s)[i]
    IN  e[1] \in DOMAIN dist /\ dist[e[1]] + e[3] = dist[s]

(* Claim C31: action derivation is deterministic and order-based: for each *)
(* non-goal state of the distance map the recorded next action is the      *)
(* action of the first edge, in the order of the successor generator,      *)
(* whose target n is in the distance map with dist[n] + cost = dist[state];*)
(* the successor generator is used also after a backward search, and a     *)
(* state with no such edge gets no entry.                                  *)
C31_FirstMatchingEdgeDecides ==
    Ready =>
        \A s \in DOMAIN dist :
            ~is_goal(s) =>
                LET matching == {i \in 1 .. Len(successors(s)) : OnOptimalPath(s, i)}
                IN  IF matching = {}
                    THEN s \notin DOMAIN next_action
                    ELSE /\ s \in DOMAIN next_action
                         /\ next_action[s] = successors(s)[SetMin(matching)][2]

C31_Witness ==
    /\ Ready
    /\ strategy = "backward"
    /\ \E s \in DOMAIN dist :
          /\ ~is_goal(s)
          /\ Len(successors(s)) = 3
          /\ ~OnOptimalPath(s, 1) /\ OnOptimalPath(s, 2) /\ OnOptimalPath(s, 3)
          /\ successors(s)[2][2] # successors(s)[3][2]
          /\ next_action[s] = successors(s)[2][2]

(* the pairs <<n, c>> such that some path from a seed to n along the       *)
(* traversed generator costs c, for the costs up to NumStates              *)
WalkStep(W) ==
    W \cup {<<Traversed(p[1])[i][1], p[2] + Traversed(p[1])[i][3]>> :
               <<p, i>> \in {<<q, j>> \in W \X (1 .. MaxEdges) :
                                /\ j <= Len(Traversed(q[1]))
                                /\ q[2] + Traversed(q[1])[j][3] <= NumStates}}

RECURSIVE WalkClosure(_)
WalkClosure(W) == IF WalkStep(W) = W THEN W ELSE WalkClosure(WalkStep(W))

PathCosts == WalkClosure({<<s, 0>> : s \in SeedSet})

(* Claim C32: in every state of the search, also when max_states cuts it   *)
(* off, each recorded distance is the total cost of an actual path from    *)
(* some seed along traversed edges, hence never smaller than the true      *)
(* shortest distance; it equals the true shortest distance in the runs     *)
(* that end with an empty queue.                                           *)
C32_DistancesArePathCosts ==
    pc \in {"search", "derive", "ready"} =>
        /\ \A n \in DOMAIN dist :
              /\ <<n, dist[n]>> \in PathCosts
              /\ dist[n] >= SeedDistance[n]
        /\ QueueEmptied => \A n \in DOMAIN dist : dist[n] = SeedDistance[n]

(* a search cut off by max_states with a recorded distance above the       *)
(* shortest one                                                            *)
C32_Witness ==
    /\ pc = "ready"
    /\ queue # <<>>
    /\ BoundHit(skel.max_states, expanded)
    /\ \E n \in DOMAIN dist : dist[n] > SeedDistance[n] /\ <<n, dist[n]>> \in PathCosts

(***************************************************************************)
(* TMDomain's generators called directly.                                  *)
(***************************************************************************)
MaxLeft == 8
MaxRight == 3
MaxStepCount == 1

(* TMState(n_left, n_right, step_count) with all three >= 0 *)
TMStates ==
    {TMState(n_left, n_right, step_count) :
        n_left \in 0 .. MaxLeft, n_right \in 0 .. MaxRight, step_count \in 0 .. MaxStepCount}

CallSuccessors ==
    /\ pc = "domain"
    /\ \E s \in TMStates :
          query' = [op |-> "_successors", arg |-> s, result |-> _successors(skel.dom, s)]
    /\ UNCHANGED <<skel, pc, strategy, dist, parent, queue, expanded, next_action, error,
                   popped, readers, tm>>

CallPredecessors ==
    /\ pc = "domain"
    /\ \E s \in TMStates :
          query' = [op |-> "_predecessors", arg |-> s, result |-> _predecessors(skel.dom, s)]
    /\ UNCHANGED <<skel, pc, strategy, dist, parent, queue, expanded, next_action, error,
                   popped, readers, tm>>

(* SpecDomain: a TMDomain for every non-empty choice of ops and both cost  *)
(* modes, max_value = MaxValueTM                                           *)
InitDomain ==
    /\ \E ops \in (SUBSET {"+", "-", "#"}) \ {{}}, cost_mode \in {"uniform", "realistic"} :
          skel = build_skeleton([start_n1 |-> MaxOperand, start_n2 |-> MaxOperand - 1,
                                 target |-> MaxTarget, ops |-> ops,
                                 max_value |-> MaxValueTM, cost_mode |-> cost_mode])
    /\ pc = "domain"
    /\ strategy = None
    /\ dist = EmptyMap
    /\ parent = EmptyMap
    /\ queue = <<>>
    /\ expanded = 0
    /\ next_action = EmptyMap
    /\ error = NoError
    /\ popped = <<>>
    /\ query = NoQuery
    /\ readers = NoReaders
    /\ tm = NoMachine

NextDomain ==
    \/ CallSuccessors
    \/ CallPredecessors

SpecDomain == InitDomain /\ [][NextDomain]_vars

Yields(edges, e) == \E i \in 1 .. Len(edges) : edges[i] = e

(* Claim C33: for every TMState s with n_left, n_right >= 0 every          *)
(* successor produced by _successors(s) has n_right = 0,                   *)
(* 0 <= n_left <= max_value and step_count = s.step_count + 1, and is      *)
(* labelled '+' with n_left = n1 + n2, '-' with n_left = n1 - n2 (only     *)
(* when n1 >= n2) or '#' with n_left = n1 * 2^n2; operations not listed in *)
(* ops are never produced.                                                 *)
C33_SuccessorsInRange ==
    query.op = "_successors" =>
        \A i \in 1 .. Len(query.result) :
            LET s == query.arg
                t == query.result[i][1]
                a == query.result[i][2]
            IN  /\ t.n_right = 0
                /\ 0 <= t.n_left /\ t.n_left <= skel.dom.max_value
                /\ t.step_count = s.step_count + 1
                /\ a \in skel.dom.ops
                /\ CASE a = "+" -> t.n_left = s.n_left + s.n_right
                     [] a = "-" -> s.n_left >= s.n_right /\ t.n_left = s.n_left - s.n_right
                     [] a = "#" -> t.n_left = s.n_left * (2 ^ s.n_right)
                     [] OTHER -> FALSE

(* Claim C34: TMDomain's predecessor relation is the inverse of its        *)
(* successor relation: for every state s and every (p, a, c) yielded by    *)
(* _predecessors(s), _successors(p) yields (s, a, c); and for every        *)
(* in-range p with (s, a, c) in _successors(p), _predecessors(s) yields    *)
(* (p, a, c), states with step_count 0 included.                           *)
C34_PredecessorsInvertSuccessors ==
    /\ query.op = "_predecessors" =>
          \A i \in 1 .. Len(query.result) :
              LET e == query.result[i]
              IN  Yields(_successors(skel.dom, e[1]), Edge(query.arg, e[2], e[3]))
    /\ (/\ query.op = "_successors"
        /\ query.arg.n_left <= skel.dom.max_value
        /\ query.arg.n_right <= skel.dom.max_value) =>
          \A i \in 1 .. Len(query.result) :
              LET e == query.result[i]
              IN  Yields(_predecessors(skel.dom, e[1]), Edge(query.arg, e[2], e[3]))

(* SpecTMWide: BellmanPolicy(TMDomain(...).build_skeleton()) for start     *)
(* operands from MaxRightWide on, where a subtraction takes many rounds    *)
MaxRightWide == 20

InitTMWide ==
    /\ \E n1 \in MaxRightWide .. (MaxRightWide + MaxOperand), n2 \in {0, MaxRightWide},
          target \in 1 .. MaxTarget, cost_mode \in {"uniform", "realistic"} :
          skel = build_skeleton([start_n1 |-> n1, start_n2 |-> n2, target |-> target,
                                 ops |-> {"+", "-", "#"}, max_value |-> MaxValueTM,
                                 cost_mode |-> cost_mode])
    /\ Fresh

SpecTMWide == InitTMWide /\ [][NextForward]_vars

(* Claim C35: every edge cost produced by TMDomain is 0 or 1 whenever the  *)
(* skeleton it builds declares cost_type 'uniform' or 'zero_one', so       *)
(* constructing a BellmanPolicy from TMDomain.build_skeleton() never fails *)
(* with the cost-domain error, in cost_mode 'uniform' and 'realistic'.     *)
C35_TMCostsAreZeroOne ==
    (skel.kind = "tm" /\ skel.cost_type \in {"uniform", "zero_one"}) =>
        /\ error.kind # "cost"
        /\ pc = "search" =>
              \A s \in DOMAIN dist :
                  \A i \in 1 .. Len(successors(s)) : successors(s)[i][3] \in {0, 1}

(* Claim C36: the search over a TMDomain skeleton terminates by emptying   *)
(* its queue, for a finite set of (n_left, n_right) pairs bounded by       *)
(* max_value; it does not depend on the max_states cut-off to stop.        *)
C36_TMSearchEmptiesQueue ==
    (skel.kind = "tm" /\ pc \in {"derive", "ready"}) =>
        /\ queue = <<>>
        /\ ~BoundHit(skel.max_states, expanded)

(* ---------------------------------------------------------------------- *)
(* TuringMachine.step called by a client                                  *)
(* ---------------------------------------------------------------------- *)

(* the members of the enum State *)
State ==
    {"START", "PLUS_SCAN", "PLUS_ERASE", "PLUS_SEEK_END", "SUB_PLACE_LBOUND",
     "SUB_AFTER_LBOUND", "SUB_SCAN_TO_MINUS", "SUB_SCAN_R", "SUB_PICK_R",
     "SUB_SEEK_LEFT_THROUGH_MINUS", "SUB_MATCH_L", "SUB_RETURN_TO_R",
     "SUB_UNMARK_DELETE_R", "SUB_CLEANUP_MINUS", "ACCEPT", "REJECT"}

(* the symbols the two tables read and write *)
TapeAlphabet == {"1", "+", "-", "x", "L", BLANK}

MaxTape == 2
MaxCalls == 3
MaxStepOperand == 1

(* the strings over TapeAlphabet of length up to MaxTape *)
TapeStrings == UNION {[1 .. n -> TapeAlphabet] : n \in 0 .. MaxTape}

(* the client assigns the public fields tape and state of a machine that   *)
(* is new (its table is still empty) or has returned from run_operation    *)
SetTape ==
    /\ tm.pc \in {"new", "returned"}
    /\ \E s \in TapeStrings, h \in -1 .. MaxTape, q \in State :
          tm' = [tm EXCEPT !.pc = "stepping",
                           !.cells = from_string(s),
                           !.head = h,
                           !.state = q]
    /\ UNCHANGED <<Shared, readers>>

(* the client calls step() *)
CallStep ==
    /\ tm.pc = "stepping"
    /\ tm.calls < MaxCalls
    /\ tm' = [MachineStep(tm) EXCEPT !.calls = tm.calls + 1]
    /\ UNCHANGED <<Shared, readers>>

InitStep ==
    /\ skel = NoSkeleton
    /\ pc = "none"
    /\ strategy = None
    /\ dist = EmptyMap
    /\ parent = EmptyMap
    /\ queue = <<>>
    /\ expanded = 0
    /\ next_action = EmptyMap
    /\ error = NoError
    /\ popped = <<>>
    /\ query = NoQuery
    /\ readers = NoReaders
    /\ \E n1 \in 0 .. MaxStepOperand, n2 \in 0 .. MaxStepOperand, op \in {"+", "-"} :
          tm = NewMachine(n1, op, n2)

NextStep ==
    \/ run_operation
    \/ TuringMachine_step
    \/ ReconstructOutput
    \/ SetTape
    \/ CallStep

SpecStep == InitStep /\ [][NextStep]_vars

(* a configuration change made by step(), in the loop or by the client *)
Stepped ==
    /\ tm.pc \in {"running", "stepping"}
    /\ tm'.pc = tm.pc
    /\ tm'.trace # tm.trace

MaxRuns == 2

(* a further call of run_operation on a machine that has returned *)
run_operation_again ==
    /\ tm.pc = "returned"
    /\ tm.runs < MaxRuns
    /\ tm' = Enter(tm)
    /\ UNCHANGED <<Shared, readers>>

NextAgain ==
    \/ run_operation
    \/ run_operation_again
    \/ TuringMachine_step
    \/ ReconstructOutput

SpecAgain == InitMachine /\ [][NextAgain]_vars

(* Claim C38: the result returned by run_operation reports the delta       *)
(* micro-steps of that run: 'steps' equals the number of delta transitions *)
(* executed in the run and 'trace' has exactly steps + 1 entries, also     *)
(* when run_operation is called a second time on the same object.          *)
C38_ResultReportsThisRun ==
    tm.pc = "returned" =>
        /\ tm.steps = tm.run_steps
        /\ Len(tm.trace) = tm.steps + 1

(* ---------------------------------------------------------------------- *)
(* A Tape under its own operations                                        *)
(* ---------------------------------------------------------------------- *)

MaxHead == 2

(* the symbols a client writes *)
Written_symbols == {"1", "x", BLANK}

Directions == {"R", "L", "N"}

(* Tape.from_string(s): the tape, the string it was made from, the last    *)
(* operation on it, and per position the symbol put there last, by         *)
(* from_string, write or erase                                             *)
NewTape(s) ==
    [pc |-> "tape", input |-> s, cells |-> from_string(s), head |-> 0,
     op |-> "from_string", last |-> [i \in 0 .. (Len(s) - 1) |-> s[i + 1]]]

Put(last, head, ch) ==
    [i \in (DOMAIN last) \cup {head} |-> IF i = head THEN ch ELSE last[i]]

Tape_write ==
    /\ tm.pc = "tape"
    /\ \E ch \in Written_symbols :
          tm' = [tm EXCEPT !.cells = write(tm.cells, tm.head, ch),
                           !.op = "write",
                           !.last = Put(tm.last, tm.head, ch)]
    /\ UNCHANGED <<Shared, readers>>

Tape_erase ==
    /\ tm.pc = "tape"
    /\ tm' = [tm EXCEPT !.cells = erase(tm.cells, tm.head),
                        !.op = "erase",
                        !.last = Put(tm.last, tm.head, BLANK)]
    /\ UNCHANGED <<Shared, readers>>

Tape_move ==
    /\ tm.pc = "tape"
    /\ \E direction \in Directions :
          /\ move(tm.head, direction) \in -MaxHead .. MaxHead
          /\ tm' = [tm EXCEPT !.head = move(tm.head, direction), !.op = "move"]
    /\ UNCHANGED <<Shared, readers>>

InitTape ==
    /\ skel = NoSkeleton
    /\ pc = "none"
    /\ strategy = None
    /\ dist = EmptyMap
    /\ parent = EmptyMap
    /\ queue = <<>>
    /\ expanded = 0
    /\ next_action = EmptyMap
    /\ error = NoError
    /\ popped = <<>>
    /\ query = NoQuery
    /\ readers = NoReaders
    /\ \E s \in TapeStrings : tm = NewTape(s)

NextTape ==
    \/ Tape_write
    \/ Tape_erase
    \/ Tape_move

SpecTape == InitTape /\ [][NextTape]_vars

(* Claim C39: for a Tape created by from_string, after any sequence of     *)
(* write, erase and move operations no cell stores the blank symbol        *)
(* (writing blank removes the cell), read() returns the symbol last        *)
(* written at the head position or blank if none, and move changes only    *)
(* head (by +1, -1 or 0) and never the cells.                              *)
C39_TapeKeepsNoBlank ==
    /\ [](tm.pc = "tape" =>
            /\ \A i \in DOMAIN tm.cells : tm.cells[i] # BLANK
            /\ read(tm.cells, tm.head) =
                  IF tm.head \in DOMAIN tm.last THEN tm.last[tm.head] ELSE BLANK
            /\ at_blank(tm.cells, tm.head) <=> tm.head \notin DOMAIN tm.cells)
    /\ [][(tm.pc = "tape" /\ tm'.op = "move") =>
             /\ tm'.cells = tm.cells
             /\ tm'.head - tm.head \in {-1, 0, 1}]_vars

(* the blank was written over the '1' that from_string had put at position *)
(* 1, after a move there, and other cells are still stored                 *)
C39_Witness ==
    /\ tm.pc = "tape"
    /\ tm.op \in {"write", "erase"}
    /\ tm.head = 1
    /\ tm.input = <<"1", "1">>
    /\ tm.last[1] = BLANK
    /\ DOMAIN tm.cells = {0}

====
